---- MODULE Spec2Model ----
(***************************************************************************)
(* Snapshot prioritisation and batched collection of gh-trends.            *)
(*                                                                         *)
(* The model follows supabase/functions/snapshot-collector/index.ts (the   *)
(* Deno.serve handler, checkRateLimit, getReposNeedingSnapshots and        *)
(* storeSnapshots), the GraphQL utility fetchWithRetry / fetchReposBatched *)
(* and the view repos_needing_snapshots of migration 011.                  *)
(*                                                                         *)
(* Conventions.  Time is counted in whole hours.  A full name is held as   *)
(* the list of its "/"-separated segments, each segment a number, so       *)
(* <<1, 2>> stands for "owner1/repo2" and <<9>> for a string without "/".  *)
(* SQL NULL in the BIGINT column github_id is NullId; a JavaScript null or *)
(* undefined object is the record Null.                                    *)
(***************************************************************************)
EXTENDS Integers, Sequences, FiniteSets, TLC

----------------------------------------------------------------------------
(* Generic helpers *)

Min(a, b) == IF a <= b THEN a ELSE b
Max(a, b) == IF a >= b THEN a ELSE b

RECURSIVE Pow2(_)
Pow2(n) == IF n = 0 THEN 1 ELSE 2 * Pow2(n - 1)

CeilDiv(a, b) == (a + b - 1) \div b

Range(s) == {s[k] : k \in 1..Len(s)}

(* Array.prototype.slice(0, n) for n >= 0 *)
Slice0(s, n) == SubSeq(s, 1, Min(Len(s), n))

(* Array.prototype.slice(from, to) with 0-based, end-exclusive indices *)
Slice(s, from, to) == SubSeq(s, from + 1, Min(Len(s), to))

(* All orderings of a finite set as sequences without repetition *)
Perms(S) ==
  {s \in [1..Cardinality(S) -> S] : \A a, b \in 1..Cardinality(S) : a # b => s[a] # s[b]}

----------------------------------------------------------------------------
(* Values *)

NullId == 0
Null == [kind |-> "null"]
Undefined == [kind |-> "undefined"]

(* Timestamps are hours; SQL NULL in a TIMESTAMPTZ column is NullTime *)
NullTime == -1

(* The display names the store tracks *)
N1 == <<1, 1>>
N2 == <<1, 2>>
N3 == <<1, 3>>

(* The owner/name GitHub reports for a repository that was asked for under *)
(* fullName after it has been renamed or transferred: same repository,     *)
(* owner 2                                                                 *)
Renamed(fullName) == <<2, fullName[2]>>

(* GitHub's databaseId of the repository a display name resolves to *)
IdOf(fullName) == 700 + fullName[1] * 10 + fullName[2]

(* The databaseId of another repository that was created under fullName    *)
(* after the first one was deleted                                         *)
RecreatedIdOf(fullName) == IdOf(fullName) + 100

(* SQL NULL in the TEXT columns fetch_status and last_fetch_error *)
NullText == "NULL"

----------------------------------------------------------------------------
(* The store: table repos (unique full_name, primary key github_id) and    *)
(* table snapshots (github_id references repos.github_id)                  *)
(* Migration 009 makes github_id nullable for stubs and then its primary   *)
(* key; the store is taken as the view and the functions use it: a stub    *)
(* row has a NULL github_id, and the non-NULL github_ids are unique.       *)

VARIABLES
  now,        \* NOW() of the database and Date.now() of the functions, in hours
  repos,      \* set of rows of table repos
  snapshots,  \* rows of table snapshots in insertion order (id BIGSERIAL)
  trending_discoveries, \* set of rows of table trending_discoveries (repo-lifecycle only)
  discovery_events      \* rows of table discovery_events in insertion order (discovery orchestrator only)

storeVars == <<now, repos, snapshots, trending_discoveries, discovery_events>>

(* The columns of repos that no upsert of the collector writes: the row's  *)
(* discovery time and the fetch-status columns of updateRepoFetchStatus    *)
FetchStatus(status, count, attempt, retryAfter, error) ==
  [fetch_status |-> status, fetch_failure_count |-> count, last_fetch_attempt |-> attempt,
   next_retry_after |-> retryAfter, last_fetch_error |-> error]

NeverFetched == FetchStatus(NullText, 0, NullTime, NullTime, NullText)

RepoRow(id, fullName, stars, discovered) ==
  [github_id |-> id, full_name |-> fullName, stars |-> stars, forks |-> 0,
   watchers |-> 0, open_issues |-> 0, size |-> 0, discovered_at |-> discovered]
  @@ NeverFetched

(* LEFT JOIN LATERAL (... ORDER BY recorded_at DESC LIMIT 1): recorded_at of *)
(* the latest snapshot of the row, NULL when there is none.  A NULL          *)
(* github_id matches no snapshot.                                            *)
latest_snapshot(r, snaps) ==
  LET mine == {k \in 1..Len(snaps) : r.github_id # NullId /\ snaps[k].github_id = r.github_id}
  IN IF mine = {} THEN NullTime
     ELSE LET k == CHOOSE k \in mine : \A j \in mine : snaps[j].recorded_at <= snaps[k].recorded_at
          IN snaps[k].recorded_at

(* EXTRACT(EPOCH FROM (NOW() - COALESCE(recorded_at, discovered_at))) / 3600 *)
hours_since_last_snapshot(r, last, t) ==
  t - (IF last # NullTime THEN last ELSE r.discovered_at)

(* latest_snapshot.recorded_at <= NOW() - INTERVAL 'h hours'; NULL is not <= *)
SnapshotOlderThan(last, t, h) == last # NullTime /\ last <= t - h

(* The priority of migration 008, which has no class for stubs *)
priority_score_noStubTier(r, last, t) ==
  IF r.discovered_at >= t - 48 THEN 1000
  ELSE IF last = NullTime /\ r.discovered_at < t - 48 THEN 900
  ELSE IF r.stars >= 10000 /\ SnapshotOlderThan(last, t, 20) THEN 800
  ELSE IF r.stars >= 1000 /\ SnapshotOlderThan(last, t, 22) THEN 700
  ELSE IF r.stars >= 100 /\ SnapshotOlderThan(last, t, 44) THEN 500
  ELSE IF r.stars >= 10 /\ SnapshotOlderThan(last, t, 68) THEN 300
  ELSE IF r.stars < 10 /\ SnapshotOlderThan(last, t, 7 * 24) THEN 100
  ELSE 0

(* The CASE ... END AS priority_score of the view (also its ORDER BY key); *)
(* the first WHEN that holds decides                                        *)
priority_score(r, last, t) ==
  IF r.github_id = NullId THEN 1100
  ELSE IF r.discovered_at >= t - 48 THEN 1000
  ELSE IF last = NullTime /\ r.discovered_at < t - 48 THEN 900
  ELSE IF r.stars >= 10000 /\ SnapshotOlderThan(last, t, 20) THEN 800
  ELSE IF r.stars >= 1000 /\ SnapshotOlderThan(last, t, 22) THEN 700
  ELSE IF r.stars >= 100 /\ SnapshotOlderThan(last, t, 44) THEN 500
  ELSE IF r.stars >= 10 /\ SnapshotOlderThan(last, t, 68) THEN 300
  ELSE IF r.stars < 10 /\ SnapshotOlderThan(last, t, 7 * 24) THEN 100
  ELSE 0

(* The WHERE clause the view had before the tiers were introduced *)
needs_snapshot_sixHours(r, last, t) == last = NullTime \/ last <= t - 6

(* A WHERE clause that lets the repositories of 1000 stars and more wait a *)
(* week                                                                    *)
needs_snapshot_popularWeekly(r, last, t) ==
  IF r.github_id = NullId THEN TRUE
  ELSE IF r.discovered_at >= t - 48 THEN TRUE
  ELSE IF last = NullTime /\ r.discovered_at < t - 48 THEN TRUE
  ELSE IF r.stars >= 1000 THEN SnapshotOlderThan(last, t, 7 * 24)
  ELSE IF r.stars >= 100 /\ SnapshotOlderThan(last, t, 44) THEN TRUE
  ELSE IF r.stars >= 10 /\ SnapshotOlderThan(last, t, 68) THEN TRUE
  ELSE IF r.stars < 10 /\ SnapshotOlderThan(last, t, 7 * 24) THEN TRUE
  ELSE FALSE

(* The WHERE CASE ... END of the view *)
needs_snapshot(r, last, t) ==
  IF r.github_id = NullId THEN TRUE
  ELSE IF r.discovered_at >= t - 48 THEN TRUE
  ELSE IF last = NullTime /\ r.discovered_at < t - 48 THEN TRUE
  ELSE IF r.stars >= 10000 /\ SnapshotOlderThan(last, t, 20) THEN TRUE
  ELSE IF r.stars >= 1000 /\ SnapshotOlderThan(last, t, 22) THEN TRUE
  ELSE IF r.stars >= 100 /\ SnapshotOlderThan(last, t, 44) THEN TRUE
  ELSE IF r.stars >= 10 /\ SnapshotOlderThan(last, t, 68) THEN TRUE
  ELSE IF r.stars < 10 /\ SnapshotOlderThan(last, t, 7 * 24) THEN TRUE
  ELSE FALSE

(* One row of the view, with the columns the collector selects *)
ViewRow(r, snaps, t) ==
  LET last == latest_snapshot(r, snaps)
  IN [github_id |-> r.github_id, full_name |-> r.full_name,
      priority_score |-> priority_score(r, last, t),
      hours_since_last_snapshot |-> hours_since_last_snapshot(r, last, t)]

(* An order by staleness alone *)
ViewOrdered_byStaleness(s) ==
  \A a, b \in 1..Len(s) :
    a < b => s[a].hours_since_last_snapshot >= s[b].hours_since_last_snapshot

(* An order by priority alone *)
ViewOrdered_byPriorityOnly(s) ==
  \A a, b \in 1..Len(s) : a < b => s[a].priority_score >= s[b].priority_score

(* ORDER BY priority DESC, hours_since_last_snapshot DESC *)
ViewOrdered(s) ==
  \A a, b \in 1..Len(s) :
    a < b => \/ s[a].priority_score > s[b].priority_score
             \/ /\ s[a].priority_score = s[b].priority_score
                /\ s[a].hours_since_last_snapshot >= s[b].hours_since_last_snapshot

(* The result sets SELECT ... FROM repos_needing_snapshots may return: the   *)
(* rows that pass the WHERE clause, in any order the ORDER BY allows         *)
repos_needing_snapshots(rows, snaps, t) ==
  LET due == {ViewRow(r, snaps, t) : r \in {x \in rows : needs_snapshot(x, latest_snapshot(x, snaps), t)}}
  IN {s \in Perms(due) : ViewOrdered(s)}

----------------------------------------------------------------------------
(* The GitHub GraphQL endpoint, as far as the fetcher can observe it *)

(* The repository object one aliased sub-query returns.  reported is the    *)
(* owner/name the API reports, which differs from the name asked for when   *)
(* the repository was renamed or transferred.                               *)
GitHubData(id, reported, stars) ==
  [kind |-> "data", databaseId |-> id, full_name |-> reported,
   stargazerCount |-> stars, forkCount |-> 7, watchers |-> 3, issues |-> 4, diskUsage |-> 9]

(* What the API may answer for one alias: the repository under the name    *)
(* asked for, the same with more stars, the repository under its new name, *)
(* another repository that now bears the name, null with a "Could not      *)
(* resolve to a Repository" error, or null without one                     *)
AliasKinds == {"resolved", "grown", "renamed", "recreated", "notfound", "null"}

AliasData(asked, k) ==
  IF k = "resolved" THEN GitHubData(IdOf(asked), asked, 50)
  ELSE IF k = "grown" THEN GitHubData(IdOf(asked), asked, 60)
  ELSE IF k = "renamed" THEN GitHubData(IdOf(asked), Renamed(asked), 50)
  ELSE IF k = "recreated" THEN GitHubData(RecreatedIdOf(asked), asked, 50)
  ELSE Null

(* The parsed bodies considered for a query: alias repo0 is answered in    *)
(* manner first, every other alias in manner rest.  errors holds the       *)
(* aliases named in the path of a "Could not resolve to a Repository"      *)
(* error.                                                                  *)
Body(query, first, rest) ==
  LET kindOf(a) == IF a = 0 THEN first ELSE rest
  IN [data |-> [a \in DOMAIN query |-> AliasData(query[a], kindOf(a))],
      errors |-> {a \in DOMAIN query : kindOf(a) = "notfound"}]

(* The manners considered for the aliases after repo0 *)
RestKinds == {"resolved", "renamed", "notfound", "null"}

Bodies(query) == {Body(query, first, rest) : first \in AliasKinds, rest \in RestKinds}

TransientStatus == {502, 504, 503}

(* The outcomes of one fetch(): a network-level failure, or a response *)
Responses(query) ==
  {[kind |-> "neterr"]}
  \cup {[kind |-> "http", status |-> st] : st \in TransientStatus \cup {404}}
  \cup {[kind |-> "http", status |-> 200, json |-> FALSE]}
  \cup {[kind |-> "http", status |-> 200, json |-> TRUE, parses |-> FALSE]}
  \cup {[kind |-> "http", status |-> 200, json |-> TRUE, parses |-> TRUE, body |-> b] : b \in Bodies(query)}

(* response.ok *)
Ok(resp) == resp.status >= 200 /\ resp.status <= 299

----------------------------------------------------------------------------
(* Per-run state.  run[r] holds the locals of one invocation of the        *)
(* collector (and of the fetchReposBatched call inside it) together with   *)
(* history fields that record what the invocation did.                     *)

VARIABLE run

vars == <<now, repos, snapshots, trending_discoveries, discovery_events, run>>

RunIds == {1, 2}

NoResp == [kind |-> "none"]

IdleRun ==
  [pc |-> "off",
   \* Deno.serve handler
   maxRepos |-> 0, rateLimit |-> Null, reposToSnapshot |-> <<>>, reposToProcess |-> <<>>,
   processedRepos |-> 0, apiCallsUsed |-> 0, snapshots |-> <<>>, pending |-> {},
   si |-> 0, storeResult |-> Null, response |-> Null,
   \* fetchReposBatched / fetchWithRetry
   fullNames |-> <<>>, i |-> 0, attempt |-> 0, query |-> <<>>, resultMap |-> <<>>,
   statsResults |-> <<>>,
   \* the optional parameter supabase is given; updateRepoFetchStatus calls in flight
   supabase |-> FALSE, statusCalls |-> {},
   \* history
   probeFailed |-> FALSE, probe |-> NoResp, probeRequests |-> 0, population |-> <<>>, reposAtStart |-> {}, snapshotsAtStart |-> <<>>,
   reposAtRead |-> {}, snapshotsAtRead |-> <<>>, readAt |-> 0, popReads |-> 0,
   requests |-> 0, settled |-> 0, chunks |-> 0, chunkRequests |-> 0, waits |-> <<>>, delays |-> 0, lastResp |-> NoResp,
   posOutcome |-> <<>>, rejectedChunks |-> {}, thrownChunks |-> {}, upsertFailed |-> {}, entityWrites |-> 0,
   snapIdx |-> <<>>, submitted |-> <<>>, rowRefused |-> {}, insertedIdx |-> {},
   calls |-> 0, lastStatus |-> Null, storeFaults |-> 0, reposAfterUpsert |-> {},
   \* history across the invocations of one schedule: the display names that
   \* were among reposToProcess of a fetchReposBatched call that returned
   everFetched |-> {},
   \* history of updateRepoFetchStatus: per name, the failures stored since the last
   \* stored success; the selects of the current count that answered an error
   streak |-> [n \in {N1, N2, N3} |-> 0], selectFaults |-> 0,
   \* repo-lifecycle handler
   config |-> Null, metrics |-> {}, staleRepos |-> {}, activeRepos |-> {},
   deactivatedCount |-> 0, reactivatedCount |-> 0, repoIds |-> {},
   \* history of the repo-lifecycle handler
   deactivated |-> {}, manual |-> FALSE,
   \* discovery orchestrator handler
   modules |-> <<>>, mi |-> 0, discoveredRepos |-> <<>>, results |-> <<>>,
   \* history of the discovery orchestrator: SUPABASE_URL and the key were set,
   \* the parameter sources, the positions in modules whose iteration ended in
   \* the catch
   configured |-> FALSE, sources |-> [given |-> FALSE], caught |-> {}]

----------------------------------------------------------------------------
(* fetchWithRetry and fetchReposBatched *)

batchSize == 100
maxRetries == 3
interChunkDelay == 1100

(* const [owner, name] = fullName.split('/'); if (!owner || !name) skip.    *)
(* Segment 0 stands for the empty string.                                   *)
ValidName(fullName) == Len(fullName) >= 2 /\ fullName[1] # 0 /\ fullName[2] # 0

(* fullNames.slice(i, i + batchSize) *)
Batch(fullNames, i) == Slice(fullNames, i, i + batchSize)

(* The aggregated query of a batch: alias index |-> <<owner, name>>, for    *)
(* the batch members of valid format (index is 0-based, as in repo${index}) *)
Query(batch) ==
  [a \in {k \in 0..(Len(batch) - 1) : ValidName(batch[k + 1])} |->
     <<batch[a + 1][1], batch[a + 1][2]>>]

(* attempt < maxRetries && (status === 502 || status === 504 || status === 503) *)
ShouldRetryStatus(attempt, status) ==
  attempt < maxRetries /\ (status = 502 \/ status = 504 \/ status = 503)

(* A catch that allows one more attempt *)
ShouldRetryError_oneMore(attempt) == attempt < maxRetries + 1

(* catch: if (attempt < maxRetries) *)
ShouldRetryError(attempt) == attempt < maxRetries

(* A backoff that grows by one second per attempt instead of doubling *)
waitTime_linear(attempt) == (attempt + 1) * 1000

(* Math.pow(2, attempt) * 1000 *)
waitTime(attempt) == Pow2(attempt) * 1000

(* The three early exits of the try block: !response.ok, content type not  *)
(* application/json, response.json() throws                                *)
ChunkRejected(resp) == ~Ok(resp) \/ ~resp.json \/ ~resp.parses

(* What batch.forEach stores for each batch position (1-based here) after  *)
(* a response: null everywhere for a rejected response, else the aliased   *)
(* field json.data?.[`repo${index}`] when it is truthy and null otherwise  *)
ChunkValues(batch, resp) ==
  [k \in 1..Len(batch) |->
     IF ChunkRejected(resp) THEN Null
     ELSE IF (k - 1) \in DOMAIN resp.body.data THEN resp.body.data[k - 1] ELSE Null]

(* The catch block of fetchReposBatched: null for every batch member *)
ChunkThrown(batch) == [k \in 1..Len(batch) |-> Null]

(* batch.forEach(... resultMap.set(fullName, value)): later positions      *)
(* overwrite earlier ones with the same key                                *)
SetAll(resultMap, batch, vals) ==
  [x \in DOMAIN resultMap \cup Range(batch) |->
     LET at == {k \in 1..Len(batch) : batch[k] = x}
     IN IF at # {}
        THEN vals[CHOOSE k \in at : \A j \in at : j <= k]
        ELSE resultMap[x]]

(* A fetcher that returns only what it could resolve *)
finalResults_resolvedOnly(fullNames, resultMap) ==
  SelectSeq([k \in 1..Len(fullNames) |->
               IF fullNames[k] \in DOMAIN resultMap THEN resultMap[fullNames[k]] ELSE Null],
            LAMBDA v : v # Null)

(* fullNames.map(fullName => resultMap.get(fullName) || null) *)
finalResults(fullNames, resultMap) ==
  [k \in 1..Len(fullNames) |->
     IF fullNames[k] \in DOMAIN resultMap THEN resultMap[fullNames[k]] ELSE Null]

(* updateRepoFetchStatus up to its update statement: the columns it sets,  *)
(* given the fetch_failure_count it read (0 when it read none).  For a     *)
(* failure below the fifth the status becomes retry_later and a retry is   *)
(* scheduled; from the fifth on the status passed in is kept and           *)
(* next_retry_after is not among the columns set.                          *)
backoffHours(failureCount) == IF failureCount >= 4 THEN 24 * 7 ELSE Pow2(failureCount - 1)

StatusUpdates(status, error, currentCount, t) ==
  LET updates == [fetch_status |-> status, last_fetch_attempt |-> t, last_fetch_error |-> error]
      failureCount == currentCount + 1
  IN IF status = "fetchable"
     THEN updates @@ [fetch_failure_count |-> 0, next_retry_after |-> NullTime]
     ELSE IF failureCount < 5
          THEN [fetch_status |-> "retry_later", fetch_failure_count |-> failureCount,
                next_retry_after |-> t + backoffHours(failureCount)] @@ updates
          ELSE [fetch_failure_count |-> failureCount] @@ updates

(* supabase.from('repos').update(updates).eq('full_name', fullName) *)
ApplyUpdate(rows, fullName, updates) ==
  {IF x.full_name = fullName THEN updates @@ x ELSE x : x \in rows}

(* .select('fetch_failure_count').eq('full_name', fullName).single(), then *)
(* currentRepo?.fetch_failure_count || 0                                   *)
CurrentFailureCount(rows, fullName) ==
  LET found == {x \in rows : x.full_name = fullName}
  IN IF found = {} THEN 0 ELSE (CHOOSE x \in found : TRUE).fetch_failure_count

(* The updateRepoFetchStatus calls batch.forEach makes for a response that *)
(* was processed: fetchable for a truthy alias field, not_found for a      *)
(* falsy one with a "Could not resolve to a Repository" error, none else   *)
StatusCallsOfResponse(batch, resp) ==
  LET vals == ChunkValues(batch, resp)
      called == SelectSeq([k \in 1..Len(batch) |-> k],
                          LAMBDA k : vals[k] # Null \/ (k - 1) \in resp.body.errors)
  IN [j \in 1..Len(called) |->
        IF vals[called[j]] # Null
        THEN [fullName |-> batch[called[j]], status |-> "fetchable", error |-> NullText]
        ELSE [fullName |-> batch[called[j]], status |-> "not_found",
              error |-> "Could not resolve to a Repository"]]

(* The calls of the catch block: server_error for every batch member *)
StatusCallsOfThrow(batch) ==
  [k \in 1..Len(batch) |->
     [fullName |-> batch[k], status |-> "server_error", error |-> "network error"]]

(* The calls are started and not awaited.  Each runs to its first await:   *)
(* the update statement for fetchable, the select of the current count     *)
(* for every other status.                                                 *)
StartStatusCalls(s, started, t) ==
  IF ~s.supabase THEN s
  ELSE [s EXCEPT !.statusCalls = @ \cup
                    {[n |-> <<s.calls, s.i, j>>, fullName |-> started[j].fullName,
                      status |-> started[j].status, error |-> started[j].error,
                      phase |-> IF started[j].status = "fetchable" THEN "update" ELSE "select",
                      failureCount |-> 0,
                      updates |-> IF started[j].status = "fetchable"
                                  THEN StatusUpdates("fetchable", NullText, 0, t)
                                  ELSE Null] : j \in 1..Len(started)}]

(* History: the values of a chunk written at the chunk's own positions *)
Recorded(posOutcome, i, vals) ==
  [k \in 1..Len(posOutcome) |->
     IF k > i /\ k <= i + Len(vals) THEN vals[k - i] ELSE posOutcome[k]]

(* A loop head that sends the requests of the chunk at offset i and of    *)
(* every chunk after it at once                                           *)
IssueChunk_allAtOnce(s, i) ==
  [s EXCEPT !.pc = "inflight", !.i = i, !.attempt = 0,
            !.query = Query(Batch(s.fullNames, i)),
            !.requests = @ + CeilDiv(Len(s.fullNames) - i, batchSize),
            !.chunks = @ + 1, !.chunkRequests = 1, !.waits = <<>>, !.lastResp = NoResp]

(* Loop head for offset i: build the query and call fetchWithRetry, whose  *)
(* first fetch() is issued at once                                         *)
IssueChunk(s, i) ==
  [s EXCEPT !.pc = "inflight", !.i = i, !.attempt = 0,
            !.query = Query(Batch(s.fullNames, i)),
            !.requests = @ + 1, !.chunks = @ + 1, !.chunkRequests = 1, !.waits = <<>>,
            !.lastResp = NoResp]

(* return finalResults *)
Return(s) ==
  [s EXCEPT !.pc = "fetched", !.statsResults = finalResults(s.fullNames, s.resultMap)]

(* i += batchSize and the loop test *)
NextChunk(s) ==
  IF s.i + batchSize < Len(s.fullNames) THEN IssueChunk(s, s.i + batchSize) ELSE Return(s)

(* A loop that gives up at the first rejected response *)
EndOfIteration_returnOnRejected(s, continued) ==
  IF continued THEN [s EXCEPT !.pc = "fetched",
                              !.statsResults = finalResults(s.fullNames, s.resultMap)]
  ELSE IF s.i + batchSize < Len(s.fullNames)
  THEN [s EXCEPT !.pc = "delay", !.delays = @ + 1]
  ELSE [s EXCEPT !.pc = "fetched", !.statsResults = finalResults(s.fullNames, s.resultMap)]

(* The end of one loop iteration.  A rejected response leaves the          *)
(* iteration with `continue`, which skips the wait between batches.        *)
EndOfIteration(s, continued) ==
  IF ~continued /\ s.i + batchSize < Len(s.fullNames)
  THEN [s EXCEPT !.pc = "delay", !.delays = @ + 1]
  ELSE NextChunk(s)

(* The call itself, up to its first await *)
CallFetch(s, names) ==
  LET t == [s EXCEPT !.fullNames = names, !.resultMap = <<>>,
                     !.posOutcome = [k \in 1..Len(names) |-> Undefined],
                     !.statsResults = <<>>,
                     !.requests = 0, !.settled = 0, !.chunks = 0, !.delays = 0,
                     !.rejectedChunks = {},
                     !.thrownChunks = {}]
  IN IF Len(names) = 0
     THEN [t EXCEPT !.pc = "fetched", !.statsResults = <<>>]
     ELSE IssueChunk(t, 0)

(* fetchReposBatched is entered *)
fetchReposBatched(r) ==
  /\ run[r].pc = "call"
  /\ run' = [run EXCEPT ![r] = CallFetch(run[r], run[r].fullNames)]
  /\ UNCHANGED storeVars

(* A fetch() of fetchWithRetry settles: retry after a backoff, give up, or *)
(* hand the response to fetchReposBatched, which processes the batch       *)
fetchWithRetry(r) ==
  /\ run[r].pc = "inflight"
  /\ \E resp \in Responses(run[r].query) :
       LET s == [run[r] EXCEPT !.settled = @ + 1, !.lastResp =
                   IF resp.kind = "neterr" THEN resp ELSE [kind |-> "http", status |-> resp.status]]
           batch == Batch(s.fullNames, s.i)
           store(vals) == [s EXCEPT !.resultMap = SetAll(@, batch, vals),
                                    !.posOutcome = Recorded(@, s.i, vals)]
           thrown == StartStatusCalls(store(ChunkThrown(batch)), StatusCallsOfThrow(batch), now)
           processed == IF ChunkRejected(resp) THEN store(ChunkValues(batch, resp))
                        ELSE StartStatusCalls(store(ChunkValues(batch, resp)),
                                              StatusCallsOfResponse(batch, resp), now)
       IN run' = [run EXCEPT ![r] =
            IF resp.kind = "neterr"
            THEN IF ShouldRetryError(s.attempt)
                 THEN [s EXCEPT !.pc = "backoff", !.waits = Append(@, waitTime(s.attempt))]
                 ELSE EndOfIteration([thrown EXCEPT !.thrownChunks = @ \cup {s.i}], FALSE)
            ELSE IF ShouldRetryStatus(s.attempt, resp.status)
                 THEN [s EXCEPT !.pc = "backoff", !.waits = Append(@, waitTime(s.attempt))]
                 ELSE EndOfIteration(
                        [processed EXCEPT !.rejectedChunks =
                           IF ChunkRejected(resp) THEN @ \cup {s.i} ELSE @],
                        ChunkRejected(resp))]
  /\ UNCHANGED storeVars

(* The backoff timer of fetchWithRetry fires: next attempt *)
BackoffElapsed(r) ==
  /\ run[r].pc = "backoff"
  /\ run' = [run EXCEPT ![r] = [@ EXCEPT !.pc = "inflight", !.attempt = @ + 1,
                                         !.requests = @ + 1, !.chunkRequests = @ + 1]]
  /\ UNCHANGED storeVars

(* The wait between batches ends: next chunk *)
DelayElapsed(r) ==
  /\ run[r].pc = "delay"
  /\ run' = [run EXCEPT ![r] = NextChunk(run[r])]
  /\ UNCHANGED storeVars

(* The select of an updateRepoFetchStatus call settles: the call computes  *)
(* its updates and issues the update statement.  When the select answers   *)
(* an error, data is null and currentRepo?.fetch_failure_count || 0 is 0.  *)
StatusSelectSettles(r) ==
  /\ \E c \in run[r].statusCalls, failed \in BOOLEAN :
       /\ c.phase = "select"
       /\ LET count == IF failed THEN 0 ELSE CurrentFailureCount(repos, c.fullName)
              d == [c EXCEPT !.phase = "update", !.failureCount = count + 1,
                             !.updates = StatusUpdates(c.status, c.error, count, now)]
          IN run' = [run EXCEPT ![r] =
               [@ EXCEPT !.statusCalls = (@ \ {c}) \cup {d},
                         !.selectFaults = IF failed THEN @ + 1 ELSE @]]
  /\ UNCHANGED storeVars

(* The update statement of an updateRepoFetchStatus call settles; a        *)
(* failure of the statement is ignored                                     *)
StatusUpdateSettles(r) ==
  /\ \E c \in run[r].statusCalls, stored \in BOOLEAN :
       /\ c.phase = "update"
       /\ repos' = IF stored THEN ApplyUpdate(repos, c.fullName, c.updates) ELSE repos
       /\ run' = [run EXCEPT ![r] =
            [@ EXCEPT !.statusCalls = @ \ {c},
                      !.streak = IF ~stored \/ c.fullName \notin DOMAIN @ THEN @
                                 ELSE [@ EXCEPT ![c.fullName] =
                                         IF c.status = "fetchable" THEN 0 ELSE @ + 1],
                      !.lastStatus = [fullName |-> c.fullName, status |-> c.status,
                                      failureCount |-> c.failureCount,
                                      updates |-> c.updates, at |-> now,
                                      stored |-> stored]]]
  /\ UNCHANGED <<now, snapshots, trending_discoveries, discovery_events>>

----------------------------------------------------------------------------
(* fetchReposBatched on its own, for input lists of up to MaxLen names *)

MaxLen == 101

Lens == {0, 1, 2, batchSize, MaxLen}

(* n pairwise different names; the same with the first name repeated at    *)
(* the end, for the short and the longest lists; the same with a name      *)
(* without "/" in second place, for the lists of one chunk                 *)
InputLists ==
  {[k \in 1..n |-> <<1, k>>] : n \in Lens}
  \cup {[k \in 1..n |-> IF k = n THEN <<1, 1>> ELSE <<1, k>>] : n \in {2, MaxLen}}
  \cup {[k \in 1..n |-> IF k = Min(n, 2) THEN <<9>> ELSE <<1, k>>] : n \in {1, 2, batchSize}}

InitFetch ==
  /\ now = 1000
  /\ repos = {}
  /\ snapshots = <<>>
  /\ trending_discoveries = {}
  /\ discovery_events = <<>>
  /\ \E names \in InputLists :
       run = [r \in RunIds |->
                IF r = 1 THEN [IdleRun EXCEPT !.pc = "call", !.fullNames = names] ELSE IdleRun]

NextFetch ==
  \E r \in RunIds :
    \/ fetchReposBatched(r)
    \/ fetchWithRetry(r)
    \/ BackoffElapsed(r)
    \/ DelayElapsed(r)

SpecFetch == InitFetch /\ [][NextFetch]_vars

----------------------------------------------------------------------------
(* fetchReposBatched called with the optional parameter supabase, up to    *)
(* MaxCalls times in a row, on names of a store that holds a stub and a    *)
(* measured repository                                                    *)

MaxCalls == 5

StatusLists == {<<N1>>, <<N2>>}

(* The caller calls again, after the previous call has returned and its    *)
(* status updates have landed                                              *)
CallAgain(r) ==
  /\ run[r].pc = "fetched"
  /\ run[r].supabase
  /\ run[r].statusCalls = {}
  /\ run[r].calls < MaxCalls
  /\ \E names \in StatusLists :
       run' = [run EXCEPT ![r] = CallFetch([@ EXCEPT !.calls = @ + 1], names)]
  /\ UNCHANGED storeVars

InitStatus ==
  /\ now = 1000
  /\ repos = {RepoRow(NullId, N1, 0, now - 300), RepoRow(IdOf(N2), N2, 50, now - 300)}
  /\ snapshots = <<[github_id |-> IdOf(N2), stars |-> 50, forks |-> 0, watchers |-> 0,
                    open_issues |-> 0, subscribers |-> 0, size |-> 0, recorded_at |-> now - 10]>>
  /\ trending_discoveries = {}
  /\ discovery_events = <<>>
  /\ \E names \in StatusLists :
       run = [r \in RunIds |->
                IF r = 1 THEN [IdleRun EXCEPT !.pc = "call", !.supabase = TRUE, !.calls = 1,
                                              !.fullNames = names]
                ELSE IdleRun]

NextStatus ==
  \E r \in RunIds :
    \/ fetchReposBatched(r)
    \/ fetchWithRetry(r)
    \/ BackoffElapsed(r)
    \/ StatusSelectSettles(r)
    \/ StatusUpdateSettles(r)
    \/ CallAgain(r)

SpecStatus == InitStatus /\ [][NextStatus]_vars

----------------------------------------------------------------------------
(* Failure reports for one entity that overlap: two calls of               *)
(* fetchReposBatched with the parameter supabase running at the same time  *)
(* for the same name, or one call whose list holds the name twice, so that *)
(* two un-awaited updateRepoFetchStatus calls are in flight together.  The *)
(* entity has failed never or twice before.                                *)

FailedBefore(t) ==
  {RepoRow(NullId, N1, 0, t - 300),
   FetchStatus("retry_later", 2, t - 5, t - 3, "Could not resolve to a Repository")
     @@ RepoRow(NullId, N1, 0, t - 300)}

InitOverlap ==
  /\ now = 1000
  /\ \E x \in FailedBefore(now) : repos = {x}
  /\ snapshots = <<>>
  /\ trending_discoveries = {}
  /\ discovery_events = <<>>
  /\ \E twoCalls \in BOOLEAN :
       run = [r \in RunIds |->
                IF r = 1 \/ twoCalls
                THEN [IdleRun EXCEPT !.pc = "call", !.supabase = TRUE, !.calls = 1,
                                     !.reposAtStart = repos,
                                     !.fullNames = IF twoCalls THEN <<N1>> ELSE <<N1, N1>>]
                ELSE IdleRun]

NextOverlap ==
  \E r \in RunIds :
    \/ fetchReposBatched(r)
    \/ fetchWithRetry(r)
    \/ BackoffElapsed(r)
    \/ StatusSelectSettles(r)
    \/ StatusUpdateSettles(r)

SpecOverlap == InitOverlap /\ [][NextOverlap]_vars

----------------------------------------------------------------------------
(* snapshot-collector: checkRateLimit, the Deno.serve handler, storeSnapshots *)

minRemaining == 50
reserve == 100
perCall == 100
snapshotBatchSize == 50

(* The fallback of checkRateLimit's catch block *)
DefaultRateLimit(t) == [remaining |-> 100, total |-> 5000, reset_time |-> t + 1]

(* An answer of GET /rate_limit: a network error, or a status with a body  *)
(* that response.json() cannot parse ("unparsable"), that parses to        *)
(* something without resources.core ("noCore"), or that parses to an       *)
(* object whose resources.core is the object `core`                        *)
ProbeBody(core) == [shape |-> "core", core |-> core]

WellFormed(remaining, limit, reset) ==
  [kind |-> "http", status |-> 200,
   body |-> ProbeBody([remaining |-> remaining, limit |-> limit, reset |-> reset])]

(* The try block of checkRateLimit throws: fetch rejects, !response.ok,    *)
(* response.json() rejects, or data.resources.core cannot be read from     *)
ProbeThrows(probe) ==
  \/ probe.kind = "neterr"
  \/ probe.status \notin 200..299
  \/ probe.body.shape # "core"

(* The property of the result that each property of coreLimit is copied to *)
CoreField == [remaining |-> "remaining", total |-> "limit", reset_time |-> "reset"]

(* checkRateLimit: the fallback when the try block throws; else the        *)
(* properties read from coreLimit.  A property coreLimit does not have     *)
(* reads as undefined, and the result then has no value for it.            *)
checkRateLimit(probe, t) ==
  IF ProbeThrows(probe) THEN DefaultRateLimit(t)
  ELSE LET coreLimit == probe.body.core
       IN [f \in {g \in DOMAIN CoreField : CoreField[g] \in DOMAIN coreLimit} |->
             coreLimit[CoreField[f]]]

(* A floor that also stops a run at exactly 50 *)
LowRateLimit_inclusive(rateLimit) == rateLimit.remaining <= minRemaining

(* if (rateLimit.remaining < 50) *)
LowRateLimit(rateLimit) == rateLimit.remaining < minRemaining

(* A budget that keeps no buffer *)
availableApiCalls_noReserve(rateLimit) == Max(0, rateLimit.remaining)

(* Math.max(0, rateLimit.remaining - 100) *)
availableApiCalls(rateLimit) == Max(0, rateLimit.remaining - reserve)

(* Math.min(reposToSnapshot.length, maxRepos, availableApiCalls * 100) *)
effectiveLimit(reposToSnapshot, maxRepos, rateLimit) ==
  Min(Len(reposToSnapshot), Min(maxRepos, availableApiCalls(rateLimit) * perCall))

(* repo.hours_since_last_snapshot > 9999 || !repo.stars, on a row of the   *)
(* select list github_id, full_name, priority_score,                       *)
(* hours_since_last_snapshot (a missing property reads as undefined)       *)
isNew(repo) ==
  repo.hours_since_last_snapshot > 9999
  \/ (IF "stars" \in DOMAIN repo THEN repo.stars = 0 ELSE TRUE)

(* The row handed to supabase.from('repos').upsert *)
UpsertRow(data) ==
  [github_id |-> data.databaseId, full_name |-> data.full_name,
   stars |-> data.stargazerCount, forks |-> data.forkCount, watchers |-> data.watchers,
   open_issues |-> data.issues, size |-> data.diskUsage]

(* A snapshot that takes its forks from the watcher count *)
SnapshotData_forksFromWatchers(data, repo) ==
  [github_id |-> IF data.databaseId # 0 THEN data.databaseId ELSE repo.github_id,
   stars |-> data.stargazerCount, forks |-> data.watchers, watchers |-> data.watchers,
   open_issues |-> data.issues, subscribers |-> data.watchers, size |-> data.diskUsage]

(* The object pushed to snapshots; databaseId || repo.github_id *)
SnapshotData(data, repo) ==
  [github_id |-> IF data.databaseId # 0 THEN data.databaseId ELSE repo.github_id,
   stars |-> data.stargazerCount, forks |-> data.forkCount, watchers |-> data.watchers,
   open_issues |-> data.issues, subscribers |-> data.watchers, size |-> data.diskUsage]

(* A plain insert, which adds a row whatever the table holds *)
Upsert_insertOnly(rows, snaps, row, t) ==
  [ok |-> TRUE, rows |-> rows \cup {row @@ [discovered_at |-> t] @@ NeverFetched}]

(* INSERT ... ON CONFLICT (full_name) DO UPDATE on table repos; the        *)
(* columns the statement does not name keep their value (their default on  *)
(* an insert).  The result is the new table, or the table unchanged with   *)
(* ok = FALSE when the primary key github_id would be duplicated or when   *)
(* the github_id of a row that snapshots reference would change.           *)
Upsert(rows, snaps, row, t) ==
  LET same == {x \in rows : x.full_name = row.full_name}
      others == rows \ same
      clash == \E x \in others : x.github_id # NullId /\ x.github_id = row.github_id
      referenced == \E x \in same :
                      /\ x.github_id # NullId /\ x.github_id # row.github_id
                      /\ \E k \in 1..Len(snaps) : snaps[k].github_id = x.github_id
      written == IF same = {}
                 THEN row @@ [discovered_at |-> t] @@ NeverFetched
                 ELSE LET old == CHOOSE x \in same : TRUE
                      IN row @@ old
  IN IF clash \/ referenced THEN [ok |-> FALSE, rows |-> rows]
     ELSE [ok |-> TRUE, rows |-> others \cup {written}]

(* The foreign key snapshots.github_id -> repos.github_id *)
ForeignKeyOk(rows, snap) == \E x \in rows : x.github_id # NullId /\ x.github_id = snap.github_id

(* A store that keeps one snapshot row per repository: an inserted row    *)
(* takes the place of the rows of the same github_id                      *)
InsertBatch_latestOnly(rows, table, batch, bad, t) ==
  IF bad # {} \/ \E k \in 1..Len(batch) : ~ForeignKeyOk(rows, batch[k])
  THEN [ok |-> FALSE, table |-> table]
  ELSE [ok |-> TRUE,
        table |-> SelectSeq(table, LAMBDA x : \A k \in 1..Len(batch) :
                                               batch[k].github_id # x.github_id)
                    \o [k \in 1..Len(batch) |-> batch[k] @@ [recorded_at |-> t]]]

(* One supabase.from('snapshots').insert(batch): a single statement, so    *)
(* either every row of the batch is stored (recorded_at = NOW()) or none   *)
InsertBatch(rows, table, batch, bad, t) ==
  IF bad # {} \/ \E k \in 1..Len(batch) : ~ForeignKeyOk(rows, batch[k])
  THEN [ok |-> FALSE, table |-> table]
  ELSE [ok |-> TRUE,
        table |-> table \o [k \in 1..Len(batch) |-> batch[k] @@ [recorded_at |-> t]]]

(* The JSON bodies of the handler's responses *)
LowRateLimitResponse(rateLimit) ==
  [status |-> 429, success |-> FALSE, error |-> "Rate limit too low", rate_limit |-> rateLimit]

(* An answer that reports an empty population as a failure *)
NothingToDoResponse_failure ==
  [status |-> 500, success |-> FALSE,
   stats |-> [repos_checked |-> 0, snapshots_taken |-> 0, api_calls_made |-> 0]]

NothingToDoResponse ==
  [status |-> 200, success |-> TRUE,
   stats |-> [repos_checked |-> 0, snapshots_taken |-> 0, api_calls_made |-> 0]]

ErrorResponse == [status |-> 500, success |-> FALSE, error |-> "error.message"]

(* A summary that reports the requests sent, retries included *)
SummaryResponse_countsRequests(s, storeResult) ==
  [status |-> 200, success |-> TRUE,
   stats |-> [repos_checked |-> s.processedRepos, snapshots_taken |-> Len(s.snapshots),
              api_calls_made |-> s.requests,
              rate_limit_remaining |-> s.rateLimit.remaining - s.requests,
              inserted |-> storeResult.inserted, errors |-> storeResult.errors]]

SummaryResponse(s, storeResult) ==
  [status |-> 200, success |-> TRUE,
   stats |-> [repos_checked |-> s.processedRepos, snapshots_taken |-> Len(s.snapshots),
              api_calls_made |-> s.apiCallsUsed,
              rate_limit_remaining |-> s.rateLimit.remaining - s.apiCallsUsed,
              inserted |-> storeResult.inserted, errors |-> storeResult.errors]]

(* The request values and probe answers considered *)
MaxReposValues == {0, 1, 2, 1000}
RemainingValues == {10, 49, 50, 100, 101, 4000}

Probes(t) ==
  {[kind |-> "neterr"]} \cup {WellFormed(n, 5000, t + 1) : n \in RemainingValues}

(* The handler is invoked with ?limit=maxRepos and awaits checkRateLimit *)
Serve(r) ==
  /\ run[r].pc = "start"
  /\ \E m \in MaxReposValues :
       run' = [run EXCEPT ![r] = [@ EXCEPT !.pc = "probing", !.maxRepos = m,
                                             !.reposAtStart = repos,
                                             !.snapshotsAtStart = snapshots]]
  /\ UNCHANGED storeVars

(* checkRateLimit settles; below the floor the handler answers 429, else   *)
(* it queries the view                                                     *)
RateLimitChecked(r) ==
  /\ run[r].pc = "probing"
  /\ \E probe \in Probes(now) :
       LET rl == checkRateLimit(probe, now)
           s == [run[r] EXCEPT !.rateLimit = rl, !.probeFailed = ProbeThrows(probe)]
       IN run' = [run EXCEPT ![r] =
            IF LowRateLimit(rl)
            THEN [s EXCEPT !.pc = "done", !.response = LowRateLimitResponse(rl)]
            ELSE [s EXCEPT !.pc = "selecting"]]
  /\ UNCHANGED storeVars

(* getReposNeedingSnapshots fails: the handler's catch answers 500 *)
PopulationReadFails(r) ==
  /\ run[r].pc = "selecting"
  /\ run' = [run EXCEPT ![r] = [@ EXCEPT !.pc = "done", !.popReads = @ + 1,
                                        !.response = ErrorResponse]]
  /\ UNCHANGED storeVars

(* getReposNeedingSnapshots returns view rows (.limit(maxRepos)); the      *)
(* handler bounds them and calls fetchReposBatched                         *)
SelectCandidates(r) ==
  /\ run[r].pc = "selecting"
  /\ \E pop \in repos_needing_snapshots(repos, snapshots, now) :
       LET got == Slice0(pop, run[r].maxRepos)
           s == [run[r] EXCEPT !.population = pop, !.popReads = @ + 1,
                               !.reposAtRead = repos, !.snapshotsAtRead = snapshots,
                               !.readAt = now,
                               !.reposToSnapshot = got]
           chosen == Slice0(got, effectiveLimit(got, s.maxRepos, s.rateLimit))
       IN run' = [run EXCEPT ![r] =
            IF Len(got) = 0
            THEN [s EXCEPT !.pc = "done", !.response = NothingToDoResponse]
            ELSE CallFetch([s EXCEPT !.reposToProcess = chosen],
                           [k \in 1..Len(chosen) |-> chosen[k].full_name])]
  /\ UNCHANGED storeVars

(* storeSnapshots up to its first insert, or to its end when there is      *)
(* nothing to store; then the summary response                             *)
StartStore(s) ==
  IF Len(s.snapshots) = 0
  THEN [s EXCEPT !.pc = "done", !.storeResult = [inserted |-> 0, errors |-> 0],
                 !.response = SummaryResponse(s, [inserted |-> 0, errors |-> 0])]
  ELSE [s EXCEPT !.pc = "storing", !.si = 0, !.storeResult = [inserted |-> 0, errors |-> 0]]

(* fetchReposBatched has returned: the synchronous part of                 *)
(* Promise.all(statsResults.map(async ...)), which counts every result     *)
(* and issues the upsert of every resolved candidate that isNew            *)
Reconcile(r) ==
  /\ run[r].pc = "fetched"
  /\ LET s == run[r]
         resolved == {k \in 1..Len(s.statsResults) : s.statsResults[k] # Null}
         awaiting == {k \in resolved : isNew(s.reposToProcess[k])}
         direct == SelectSeq([k \in 1..Len(s.statsResults) |-> k],
                             LAMBDA k : k \in resolved \ awaiting)
         t == [s EXCEPT !.pc = "upserting",
                        !.apiCallsUsed = CeilDiv(Len(s.reposToProcess), perCall),
                        !.processedRepos = Len(s.statsResults),
                        !.pending = awaiting,
                        !.entityWrites = @ + Cardinality(awaiting),
                        !.everFetched = @ \cup {s.reposToProcess[k].full_name :
                                                   k \in 1..Len(s.reposToProcess)},
                        !.snapshots = [k \in 1..Len(direct) |->
                                         SnapshotData(s.statsResults[direct[k]],
                                                      s.reposToProcess[direct[k]])],
                        !.snapIdx = direct]
     IN run' = [run EXCEPT ![r] = IF awaiting = {} THEN StartStore(t) ELSE t]
  /\ UNCHANGED storeVars

(* One upsert settles (the store may refuse it); the callback then pushes  *)
(* the candidate's snapshot.  When the last one settles, Promise.all       *)
(* resolves and storeSnapshots is called.                                  *)
UpsertSettles(r) ==
  /\ run[r].pc = "upserting"
  /\ \E k \in run[r].pending, refused \in BOOLEAN :
       LET s == run[r]
           data == s.statsResults[k]
           res == IF refused THEN [ok |-> FALSE, rows |-> repos]
                  ELSE Upsert(repos, snapshots, UpsertRow(data), now)
           t == [s EXCEPT !.pending = @ \ {k},
                          !.upsertFailed = IF res.ok THEN @ ELSE @ \cup {k},
                          !.storeFaults = IF refused THEN @ + 1 ELSE @,
                          !.reposAfterUpsert = res.rows,
                          !.snapshots = Append(@, SnapshotData(data, s.reposToProcess[k])),
                          !.snapIdx = Append(@, k)]
       IN /\ repos' = res.rows
          /\ run' = [run EXCEPT ![r] = IF t.pending = {} THEN StartStore(t) ELSE t]
  /\ UNCHANGED <<now, snapshots, trending_discoveries, discovery_events>>

(* One batch insert of storeSnapshots settles; after the last batch the    *)
(* handler answers with the summary                                        *)
BatchSettles(r) ==
  /\ run[r].pc = "storing"
  /\ LET s == run[r]
         batch == Slice(s.snapshots, s.si, s.si + snapshotBatchSize)
         idxs == Slice(s.snapIdx, s.si, s.si + snapshotBatchSize)
     IN \E bad \in SUBSET (1..Len(batch)) :
          LET res == InsertBatch(repos, snapshots, batch, bad, now)
              sr == IF res.ok
                    THEN [s.storeResult EXCEPT !.inserted = @ + Len(batch)]
                    ELSE [s.storeResult EXCEPT !.errors = @ + Len(batch)]
              t == [s EXCEPT !.storeResult = sr, !.si = @ + snapshotBatchSize,
                             !.storeFaults = IF bad # {} THEN @ + 1 ELSE @,
                             !.submitted = @ \o batch,
                             !.rowRefused = @ \cup {idxs[k] : k \in
                                 {j \in 1..Len(batch) : j \in bad \/ ~ForeignKeyOk(repos, batch[j])}},
                             !.insertedIdx = IF res.ok THEN @ \cup Range(idxs) ELSE @]
          IN /\ snapshots' = res.table
             /\ run' = [run EXCEPT ![r] =
                  IF t.si < Len(t.snapshots) THEN t
                  ELSE [t EXCEPT !.pc = "done", !.response = SummaryResponse(t, sr)]]
  /\ UNCHANGED <<now, repos, trending_discoveries, discovery_events>>

----------------------------------------------------------------------------
(* The stores a run may start from *)

SnapshotRow(id, stars, at) ==
  [github_id |-> id, stars |-> stars, forks |-> 0, watchers |-> 0, open_issues |-> 0,
   subscribers |-> 0, size |-> 0, recorded_at |-> at]

Stub(name, t, age) == [rows |-> {RepoRow(NullId, name, 0, t - age)}, snaps |-> <<>>]

(* A resolved repository discovered `age` hours ago, never measured *)
Unmeasured(name, stars, t, age) ==
  [rows |-> {RepoRow(IdOf(name), name, stars, t - age)}, snaps |-> <<>>]

(* A resolved repository discovered `age` hours ago whose latest snapshot  *)
(* is `since` hours old                                                    *)
Measured(name, stars, t, age, since) ==
  [rows |-> {RepoRow(IdOf(name), name, stars, t - age)},
   snaps |-> <<SnapshotRow(IdOf(name), stars, t - since)>>]

(* Star count and snapshot age just below and at each tier's interval,     *)
(* one age well past an interval, and the same age with another star count *)
(* of the same tier and of a higher tier                                   *)
TierCases ==
  {<<50000, 19>>, <<50000, 20>>, <<5000, 21>>, <<5000, 22>>, <<5000, 30>>, <<500, 43>>, <<500, 44>>,
   <<50, 10>>, <<50, 68>>, <<5, 167>>, <<5, 168>>, <<1500, 30>>, <<5000, 68>>}

(* A stub whose lookup has failed three times: retry_later, next retry in  *)
(* the future                                                              *)
TriedStub(name, t, age) ==
  [rows |-> {FetchStatus("retry_later", 3, t - 1, t + 3, "Could not resolve to a Repository")
               @@ RepoRow(NullId, name, 0, t - age)},
   snaps |-> <<>>]

(* The rows considered for one display name: one of each priority class,   *)
(* due and not yet due                                                     *)
EntityCases(name, t) ==
  {Stub(name, t, 10), Stub(name, t, 300), TriedStub(name, t, 300),
   Unmeasured(name, 50, t, 10), Unmeasured(name, 50, t, 300),
   Measured(name, 50, t, 47, 10)}
  \cup {Measured(name, c[1], t, 300, c[2]) : c \in TierCases}

FirstEntity(t) == EntityCases(N1, t)

SecondEntity(t) ==
  {[rows |-> {}, snaps |-> <<>>], Stub(N2, t, 300), Measured(N2, 50, t, 300, 10),
   Measured(N2, 5000, t, 300, 45), Measured(N2, 50, t, 10, 10)}

Init ==
  /\ now = 1000
  /\ \E a \in FirstEntity(now), b \in SecondEntity(now) :
       /\ repos = a.rows \cup b.rows
       /\ snapshots = a.snaps \o b.snaps
       /\ trending_discoveries = {}
       /\ discovery_events = <<>>
  /\ run = [r \in RunIds |-> IF r = 1 THEN [IdleRun EXCEPT !.pc = "start"] ELSE IdleRun]

(* A run of the collector selects at most the rows of the store considered *)
(* here, so its fetch is a single chunk and never waits between batches    *)
Next ==
  \E r \in RunIds :
    \/ Serve(r)
    \/ RateLimitChecked(r)
    \/ PopulationReadFails(r)
    \/ SelectCandidates(r)
    \/ fetchWithRetry(r)
    \/ BackoffElapsed(r)
    \/ Reconcile(r)
    \/ UpsertSettles(r)
    \/ BatchSettles(r)

Spec == Init /\ [][Next]_vars

----------------------------------------------------------------------------
(* The population read of one invocation, over stores of one to three      *)
(* entities of every priority class.  The invocation has passed the rate   *)
(* limit check; the specification ends where the first lookup is sent.     *)

Absent == [rows |-> {}, snaps |-> <<>>]

(* The ?limit= values of the request: one, two, and the default *)
ViewLimits == {1, 2, 1000}

InitView ==
  /\ now = 1000
  /\ \E a \in EntityCases(N1, now), b \in EntityCases(N2, now) \cup {Absent},
        c \in EntityCases(N3, now) \cup {Absent}, m \in ViewLimits :
       /\ repos = a.rows \cup b.rows \cup c.rows
       /\ snapshots = a.snaps \o b.snaps \o c.snaps
       /\ trending_discoveries = {}
       /\ discovery_events = <<>>
       /\ run = [r \in RunIds |->
                   IF r = 1
                   THEN [IdleRun EXCEPT !.pc = "selecting", !.maxRepos = m,
                                        !.rateLimit = [remaining |-> 4000, total |-> 5000,
                                                       reset_time |-> now + 1],
                                        !.reposAtStart = repos, !.snapshotsAtStart = snapshots]
                   ELSE IdleRun]

NextView ==
  \E r \in RunIds :
    \/ PopulationReadFails(r)
    \/ SelectCandidates(r)

SpecView == InitView /\ [][NextView]_vars

----------------------------------------------------------------------------
(* checkRateLimit on its own, for every kind of answer of GET /rate_limit  *)

ProbeTimes == {1000, 1001, 1002}
ProbeStatuses == {200, 204, 403, 500}
ProbeLimits == {60, 5000}

(* resources.core with all three properties, and with some of them missing *)
Cores(t) ==
  {[remaining |-> n, limit |-> l, reset |-> t + 1] : n \in RemainingValues, l \in ProbeLimits}
  \cup {[limit |-> 5000, reset |-> t + 1], [remaining |-> 4000, reset |-> t + 1],
        [remaining |-> 4000, limit |-> 5000], <<>>}

ProbeAnswers(t) ==
  {[kind |-> "neterr"]}
  \cup {[kind |-> "http", status |-> st, body |-> b] :
          st \in ProbeStatuses,
          b \in {[shape |-> "unparsable"], [shape |-> "noCore"]} \cup {ProbeBody(c) : c \in Cores(t)}}

(* The single fetch of checkRateLimit settles and checkRateLimit returns *)
ProbeSettles(r) ==
  /\ run[r].pc = "probing"
  /\ \E probe \in ProbeAnswers(now) :
       run' = [run EXCEPT ![r] = [@ EXCEPT !.pc = "probed", !.probe = probe,
                                             !.probeRequests = @ + 1,
                                             !.probeFailed = ProbeThrows(probe),
                                             !.rateLimit = checkRateLimit(probe, now)]]
  /\ UNCHANGED storeVars

InitProbe ==
  /\ now \in ProbeTimes
  /\ repos = {}
  /\ snapshots = <<>>
  /\ trending_discoveries = {}
  /\ discovery_events = <<>>
  /\ run = [r \in RunIds |-> IF r = 1 THEN [IdleRun EXCEPT !.pc = "start"] ELSE IdleRun]

NextProbe ==
  \E r \in RunIds :
    \/ Serve(r)
    \/ ProbeSettles(r)

SpecProbe == InitProbe /\ [][NextProbe]_vars

----------------------------------------------------------------------------
(* Two invocations of the collector over the same store, interleaved in    *)
(* any way (one after the other included).  Both have passed the rate      *)
(* limit check with the default limit and an ample budget, and are about   *)
(* to read the view.                                                       *)

AmpleRateLimit(t) == [remaining |-> 4000, total |-> 5000, reset_time |-> t + 1]

SharedEntity(t) ==
  {Stub(N1, t, 300), Unmeasured(N1, 50, t, 300), Measured(N1, 500, t, 300, 44)}

InitTwo ==
  /\ now = 1000
  /\ \E a \in SharedEntity(now) :
       /\ repos = a.rows
       /\ snapshots = a.snaps
       /\ trending_discoveries = {}
       /\ discovery_events = <<>>
       /\ run = [r \in RunIds |->
                   [IdleRun EXCEPT !.pc = "selecting", !.maxRepos = 1000,
                                   !.rateLimit = AmpleRateLimit(now),
                                   !.reposAtStart = a.rows, !.snapshotsAtStart = a.snaps]]

NextTwo ==
  \E r \in RunIds :
    \/ PopulationReadFails(r)
    \/ SelectCandidates(r)
    \/ fetchWithRetry(r)
    \/ BackoffElapsed(r)
    \/ Reconcile(r)
    \/ UpsertSettles(r)
    \/ BatchSettles(r)

SpecTwo == InitTwo /\ [][NextTwo]_vars

----------------------------------------------------------------------------
(* The collector invoked again and again by its hourly schedule, with the  *)
(* same ?limit= each time                                                  *)

(* The last hour of the clock considered, and the largest snapshots table  *)
(* after which the schedule is followed no further                         *)
MaxNow == 1003
MaxSnapshots == 3

(* The schedule invokes the handler again an hour after a run has          *)
(* answered: the limit of the URL is the same, everything else of the      *)
(* handler starts afresh                                                   *)
Trigger(r) ==
  /\ run[r].pc = "done"
  /\ Len(snapshots) <= MaxSnapshots
  /\ now' = IF now < MaxNow THEN now + 1 ELSE now
  /\ run' = [run EXCEPT ![r] = [IdleRun EXCEPT !.pc = "probing",
                                               !.maxRepos = run[r].maxRepos,
                                               !.everFetched = run[r].everFetched,
                                               !.reposAtStart = repos,
                                               !.snapshotsAtStart = snapshots]]
  /\ UNCHANGED <<repos, snapshots, trending_discoveries, discovery_events>>

(* The environment of a run that goes well: the probe answered a budget    *)
(* above the reserve, the view was read, every request to the API was      *)
(* answered at once with a well-formed body, and the store refused no      *)
(* statement for a reason of its own                                       *)
Healthy(s) ==
  /\ ~s.probeFailed
  /\ s.rateLimit # Null => s.rateLimit.remaining > reserve
  /\ s.response # ErrorResponse
  /\ s.requests = s.chunks
  /\ s.rejectedChunks = {} /\ s.thrownChunks = {}
  /\ s.storeFaults = 0

(* A store of two entities: a stub or a popular repository that is due,    *)
(* and a less popular repository that is due                               *)
InitRepeat ==
  /\ now = 1000
  /\ \E a \in {Stub(N1, now, 300), Measured(N1, 50000, now, 300, 20)} :
       LET b == Measured(N2, 500, now, 300, 44)
       IN /\ repos = a.rows \cup b.rows
          /\ snapshots = a.snaps \o b.snaps
  /\ trending_discoveries = {}
  /\ discovery_events = <<>>
  /\ run = [r \in RunIds |-> IF r = 1 THEN [IdleRun EXCEPT !.pc = "start"] ELSE IdleRun]

(* The steps of runs that go well: no step leaves the environment above    *)
NextRepeat ==
  \E r \in RunIds :
    \/ Serve(r) /\ Healthy(run'[r])
    \/ RateLimitChecked(r) /\ Healthy(run'[r])
    \/ SelectCandidates(r) /\ Healthy(run'[r])
    \/ fetchWithRetry(r) /\ Healthy(run'[r])
    \/ Reconcile(r) /\ Healthy(run'[r])
    \/ UpsertSettles(r) /\ Healthy(run'[r])
    \/ BatchSettles(r) /\ Healthy(run'[r])
    \/ Trigger(r) /\ Healthy(run'[r])

(* Every request, timer and store call of a run settles, and the schedule  *)
(* keeps invoking the handler                                              *)
SpecRepeat == InitRepeat /\ [][NextRepeat]_vars /\ WF_vars(NextRepeat)

----------------------------------------------------------------------------
(* repo-lifecycle: calculateGrowthMetrics, deactivateStaleRepos,           *)
(* reactivateTrendingRepos and the handler, on the schema they are written *)
(* for: repos(id, full_name, is_active), snapshots(repo_id, stars, forks,  *)
(* recorded_at), trending_discoveries(repo_id, discovered_at)              *)

Day == 24

LifecycleRepo(id, fullName, active) == [id |-> id, full_name |-> fullName, is_active |-> active]

LifecycleSnapshot(id, stars, at) ==
  [repo_id |-> id, stars |-> stars, forks |-> 0, recorded_at |-> at]

TrendingDiscovery(id, at) == [repo_id |-> id, discovered_at |-> at]

SnapshotsOf(id, snaps) == {snaps[k] : k \in {j \in 1..Len(snaps) : snaps[j].repo_id = id}}

(* DISTINCT ON (repo_id) ... ORDER BY repo_id, recorded_at DESC *)
Latest(S) == CHOOSE x \in S : \A y \in S : y.recorded_at <= x.recorded_at

(* COALESCE(ls.stars, 0) *)
CurrentStars(r, snaps) ==
  IF SnapshotsOf(r.id, snaps) = {} THEN 0 ELSE Latest(SnapshotsOf(r.id, snaps)).stars

(* The function calculate_repo_growth_metrics(p_min_total_stars,           *)
(* p_max_stale_days): one row per active repository with enough stars      *)
calculate_repo_growth_metrics(rows, snaps, t, p_min_total_stars) ==
  {LET all == SnapshotsOf(r.id, snaps)
       old == {x \in all : x.recorded_at <= t - Day}
       star_growth_24h == IF old = {} THEN 0 ELSE Latest(all).stars - Latest(old).stars
       fork_growth_24h == IF old = {} THEN 0 ELSE Latest(all).forks - Latest(old).forks
       days_stale == IF star_growth_24h >= 2 THEN 0
                     ELSE IF all = {} THEN 0
                     ELSE (t - Latest(all).recorded_at) \div Day
   IN [repo_id |-> r.id, full_name |-> r.full_name,
       daily_star_growth |-> star_growth_24h, daily_fork_growth |-> fork_growth_24h,
       total_stars |-> CurrentStars(r, snaps),
       total_forks |-> IF all = {} THEN 0 ELSE Latest(all).forks,
       days_since_last_growth |-> days_stale, is_active |-> r.is_active]
   : r \in {x \in rows : x.is_active /\ CurrentStars(x, snaps) >= p_min_total_stars}}

(* snapshots.sort by recorded_at, newest first *)
SortedDesc(S) ==
  CHOOSE q \in Perms(S) : \A a, b \in 1..Len(q) : a < b => q[a].recorded_at >= q[b].recorded_at

(* The loop of calculateGrowthMetricsManual that adds up the whole days    *)
(* between consecutive snapshots, newest first, until a step with growth   *)
(* or until max_stale_days is reached                                      *)
RECURSIVE DaysSinceLastGrowth(_, _, _, _)
DaysSinceLastGrowth(q, i, days, config) ==
  IF i >= Len(q) THEN days
  ELSE IF q[i].stars - q[i + 1].stars >= config.min_daily_growth THEN days
  ELSE LET d == days + (q[i].recorded_at - q[i + 1].recorded_at) \div Day
       IN IF d >= config.max_stale_days THEN d ELSE DaysSinceLastGrowth(q, i + 1, d, config)

(* calculateGrowthMetricsManual: active repositories with at least two     *)
(* snapshots                                                               *)
calculateGrowthMetricsManual(rows, snaps, t, config) ==
  {LET q == SortedDesc(SnapshotsOf(r.id, snaps))
       olds == {k \in 1..Len(q) : q[k].recorded_at <= t - Day}
       dayOldSnapshot == IF olds = {} THEN q[2]
                         ELSE q[CHOOSE k \in olds : \A j \in olds : k <= j]
   IN [repo_id |-> r.id, full_name |-> r.full_name,
       daily_star_growth |-> q[1].stars - dayOldSnapshot.stars,
       daily_fork_growth |-> q[1].forks - dayOldSnapshot.forks,
       total_stars |-> q[1].stars, total_forks |-> q[1].forks,
       days_since_last_growth |-> DaysSinceLastGrowth(q, 1, 0, config),
       is_active |-> r.is_active]
   : r \in {x \in rows : x.is_active /\ Cardinality(SnapshotsOf(x.id, snaps)) >= 2}}

(* The filter of staleRepos *)
IsStale(m, config) ==
  /\ m.is_active
  /\ m.days_since_last_growth >= config.max_stale_days
  /\ m.daily_star_growth < config.min_daily_growth
  /\ m.total_stars >= config.min_total_stars

(* The filter of activeRepos *)
StaysActive(m, config) ==
  /\ m.is_active
  /\ \/ m.daily_star_growth >= config.min_daily_growth
     \/ m.days_since_last_growth < config.max_stale_days

(* A window of one day *)
threeDaysAgo_oneDay(t) == t - Day

(* new Date(Date.now() - 3 * 24 * 60 * 60 * 1000) *)
threeDaysAgo(t) == t - 3 * Day

(* .update({ is_active: active }).in('id', ids) *)
SetActive(rows, ids, active) ==
  {IF x.id \in ids THEN [x EXCEPT !.is_active = active] ELSE x : x \in rows}

LifecycleSummary(s) ==
  [status |-> 200, success |-> TRUE,
   summary |-> [total_analyzed |-> Cardinality(s.metrics),
                active_repos |-> Cardinality(s.activeRepos),
                stale_repos |-> Cardinality(s.staleRepos),
                deactivated |-> s.deactivatedCount, reactivated |-> s.reactivatedCount]]

(* The ?min_daily_growth, max_stale_days and min_total_stars considered:   *)
(* the defaults, and a stricter setting                                    *)
LifecycleConfigs ==
  {[min_daily_growth |-> 2, max_stale_days |-> 7, min_total_stars |-> 10],
   [min_daily_growth |-> 60, max_stale_days |-> 3, min_total_stars |-> 10]}

(* The handler is invoked and awaits the stored procedure *)
LifecycleServe(r) ==
  /\ run[r].pc = "lifecycle"
  /\ \E c \in LifecycleConfigs :
       run' = [run EXCEPT ![r] = [@ EXCEPT !.pc = "rpc", !.config = c, !.reposAtStart = repos]]
  /\ UNCHANGED storeVars

(* The handler after calculateGrowthMetrics: the two filters, and          *)
(* deactivateStaleRepos up to its update (none when nothing is stale)      *)
Classified(s, metrics) ==
  LET stale == {m \in metrics : IsStale(m, s.config)}
      t == [s EXCEPT !.metrics = metrics, !.staleRepos = stale,
                     !.activeRepos = {m \in metrics : StaysActive(m, s.config)}]
  IN IF stale = {} THEN [t EXCEPT !.pc = "finding", !.deactivatedCount = 0]
     ELSE [t EXCEPT !.pc = "deactivating"]

(* supabase.rpc('calculate_repo_growth_metrics') settles; on an error      *)
(* calculateGrowthMetrics falls back to the manual calculation             *)
calculateGrowthMetrics(r) ==
  /\ run[r].pc = "rpc"
  /\ \E failed \in BOOLEAN :
       run' = [run EXCEPT ![r] =
         IF failed THEN [@ EXCEPT !.pc = "manual", !.manual = TRUE]
         ELSE Classified(@, calculate_repo_growth_metrics(repos, snapshots, now,
                                                          @.config.min_total_stars))]
  /\ UNCHANGED storeVars

(* The select of calculateGrowthMetricsManual settles; its error is thrown *)
(* to the handler's catch                                                  *)
calculateGrowthMetricsManualSettles(r) ==
  /\ run[r].pc = "manual"
  /\ \E failed \in BOOLEAN :
       run' = [run EXCEPT ![r] =
         IF failed THEN [@ EXCEPT !.pc = "done", !.response = ErrorResponse]
         ELSE Classified(@, calculateGrowthMetricsManual(repos, snapshots, now, @.config))]
  /\ UNCHANGED storeVars

(* The update of deactivateStaleRepos settles *)
deactivateStaleRepos(r) ==
  /\ run[r].pc = "deactivating"
  /\ \E failed \in BOOLEAN :
       LET ids == {m.repo_id : m \in run[r].staleRepos}
       IN IF failed
          THEN /\ run' = [run EXCEPT ![r] = [@ EXCEPT !.pc = "done", !.response = ErrorResponse]]
               /\ UNCHANGED repos
          ELSE /\ repos' = SetActive(repos, ids, FALSE)
               /\ run' = [run EXCEPT ![r] =
                    [@ EXCEPT !.pc = "finding", !.deactivated = ids,
                              !.deactivatedCount = Cardinality(run[r].staleRepos)]]
  /\ UNCHANGED <<now, snapshots, trending_discoveries, discovery_events>>

(* The select of reactivateTrendingRepos settles.  The filter              *)
(* repos.is_active = false is on the embedded resource: it either          *)
(* restricts the rows returned (inner) or only blanks the embedded repos   *)
(* of the rows that do not match                                           *)
reactivateTrendingReposSelect(r) ==
  /\ run[r].pc = "finding"
  /\ \E failed, inner \in BOOLEAN :
       LET recent == {d \in trending_discoveries : d.discovered_at >= threeDaysAgo(now)}
           trendingRepos == IF inner
                            THEN {d \in recent : \E x \in repos : x.id = d.repo_id /\ ~x.is_active}
                            ELSE recent
       IN run' = [run EXCEPT ![r] =
            IF failed THEN [@ EXCEPT !.pc = "done", !.response = ErrorResponse]
            ELSE IF trendingRepos = {}
            THEN LET t == [@ EXCEPT !.pc = "done", !.reactivatedCount = 0]
                 IN [t EXCEPT !.response = LifecycleSummary(t)]
            ELSE [@ EXCEPT !.pc = "reactivating",
                           !.repoIds = {d.repo_id : d \in trendingRepos},
                           !.reactivatedCount = Cardinality(trendingRepos)]]
  /\ UNCHANGED storeVars

(* The update of reactivateTrendingRepos settles; the handler answers *)
reactivateTrendingReposUpdate(r) ==
  /\ run[r].pc = "reactivating"
  /\ \E failed \in BOOLEAN :
       IF failed
       THEN /\ run' = [run EXCEPT ![r] = [@ EXCEPT !.pc = "done", !.response = ErrorResponse]]
            /\ UNCHANGED repos
       ELSE /\ repos' = SetActive(repos, run[r].repoIds, TRUE)
            /\ run' = [run EXCEPT ![r] = [@ EXCEPT !.pc = "done",
                                                  !.response = LifecycleSummary(run[r])]]
  /\ UNCHANGED <<now, snapshots, trending_discoveries, discovery_events>>

(* The stores a lifecycle run may start from: each repository active or    *)
(* not, with a snapshot history and a latest appearance in trending        *)
Histories(id, t) ==
  {<<>>,
   <<LifecycleSnapshot(id, 100, t - 8 * Day)>>,
   <<LifecycleSnapshot(id, 100, t - 10 * Day), LifecycleSnapshot(id, 100, t - 8 * Day)>>,
   <<LifecycleSnapshot(id, 100, t - 9 * Day), LifecycleSnapshot(id, 150, t - 8 * Day)>>,
   <<LifecycleSnapshot(id, 100, t - 8 * Day), LifecycleSnapshot(id, 101, t - 1)>>,
   <<LifecycleSnapshot(id, 100, t - 2 * Day), LifecycleSnapshot(id, 150, t - 1)>>,
   <<LifecycleSnapshot(id, 5, t - 10 * Day), LifecycleSnapshot(id, 5, t - 8 * Day)>>,
   <<LifecycleSnapshot(id, 100, t - 12 * Day), LifecycleSnapshot(id, 100, t - 8 * Day),
     LifecycleSnapshot(id, 100, t - 4 * Day)>>}

Appearances(id, t) ==
  {{}, {TrendingDiscovery(id, t - Day)}, {TrendingDiscovery(id, t - 3 * Day)},
   {TrendingDiscovery(id, t - 3 * Day - 1)}}

InitLifecycle ==
  /\ now = 1000
  /\ \E a1, a2 \in BOOLEAN, h1 \in Histories(1, now), h2 \in Histories(2, now),
        d1 \in Appearances(1, now), d2 \in Appearances(2, now) :
       /\ repos = {LifecycleRepo(1, N1, a1), LifecycleRepo(2, N2, a2)}
       /\ snapshots = h1 \o h2
       /\ trending_discoveries = d1 \cup d2
       /\ discovery_events = <<>>
  /\ run = [r \in RunIds |-> IF r = 1 THEN [IdleRun EXCEPT !.pc = "lifecycle"] ELSE IdleRun]

NextLifecycle ==
  \E r \in RunIds :
    \/ LifecycleServe(r)
    \/ calculateGrowthMetrics(r)
    \/ calculateGrowthMetricsManualSettles(r)
    \/ deactivateStaleRepos(r)
    \/ reactivateTrendingReposSelect(r)
    \/ reactivateTrendingReposUpdate(r)

SpecLifecycle == InitLifecycle /\ [][NextLifecycle]_vars

----------------------------------------------------------------------------
(* The discovery orchestrator: the handler, its discovery modules and      *)
(* storeDiscoveredRepos, on repos(id, full_name, is_active) and            *)
(* discovery_events(repo_id, source_id)                                    *)

(* The modules in the order the handler pushes them *)
SourceNames == <<"github_trending", "github_explore", "github_search">>

(* source_id of the module classes *)
SourceId(name) ==
  CASE name = "github_trending" -> 1
    [] name = "github_explore" -> 2
    [] name = "github_search" -> 3

(* url.searchParams.get('sources')?.split(',') || [all three] *)
enabledSources(sources) == IF sources.given THEN sources.value ELSE SourceNames

(* The three if (enabledSources.includes(...)) modules.push(...) *)
Modules(enabled) ==
  SelectSeq(SourceNames, LAMBDA n : \E k \in 1..Len(enabled) : enabled[k] = n)

(* results.reduce: errors counts the messages *)
RECURSIVE Totals(_)
Totals(results) ==
  IF results = <<>> THEN [discovered |-> 0, inserted |-> 0, existing |-> 0, errors |-> 0]
  ELSE LET acc == Totals(SubSeq(results, 1, Len(results) - 1))
           result == results[Len(results)]
       IN [discovered |-> acc.discovered + result.discovered,
           inserted |-> acc.inserted + result.inserted,
           existing |-> acc.existing + result.existing,
           errors |-> acc.errors + Len(result.errors)]

DiscoveryResponse(results) ==
  [status |-> 200, success |-> TRUE, totals |-> Totals(results), results |-> results]

(* The end of one iteration of for (const module of modules), and the      *)
(* response after the last one                                             *)
NextModule(s, result) ==
  LET t == [s EXCEPT !.results = Append(@, result), !.discoveredRepos = <<>>]
  IN IF s.mi >= Len(s.modules)
     THEN [t EXCEPT !.pc = "done", !.response = DiscoveryResponse(t.results)]
     ELSE [t EXCEPT !.pc = "discovering", !.mi = @ + 1]

(* A catch that gives the error to the handler's outer catch *)
Caught_rethrown(s, message) == [s EXCEPT !.pc = "done", !.response = ErrorResponse]

(* The catch of the loop: a result of zeros with the one message *)
Caught(s, message) ==
  NextModule([s EXCEPT !.caught = @ \cup {s.mi}],
             [source_name |-> s.modules[s.mi], discovered |-> 0, inserted |-> 0,
              existing |-> 0, errors |-> <<message>>])

(* id BIGSERIAL *)
NextRepoId(rows) ==
  IF rows = {} THEN 1 ELSE 1 + (CHOOSE n \in {x.id : x \in rows} : \A x \in rows : x.id <= n)

(* What can go wrong for one repository in storeDiscoveredRepos: the       *)
(* select answers an error (data is null), the insert into repos answers   *)
(* an error, the insert into discovery_events answers an error             *)
StoreFaults == {"none", "select", "insert", "event"}

(* One iteration of the loop of storeDiscoveredRepos *)
StoreOne(acc, fullName, fault, sourceId) ==
  LET found == {x \in acc.repos : x.full_name = fullName}
      existingRepo == IF fault = "select" THEN {} ELSE found
      insertError == existingRepo = {} /\ (fault = "insert" \/ found # {})
      repoId == IF existingRepo # {} THEN (CHOOSE x \in existingRepo : TRUE).id
                ELSE NextRepoId(acc.repos)
      rows == IF existingRepo = {} /\ ~insertError
              THEN acc.repos \cup {LifecycleRepo(repoId, fullName, TRUE)} ELSE acc.repos
  IN IF insertError
     THEN [acc EXCEPT !.errors = Append(@, "Processing failed")]
     ELSE [repos |-> rows,
           events |-> IF fault = "event" THEN acc.events
                      ELSE Append(acc.events, [repo_id |-> repoId, source_id |-> sourceId]),
           inserted |-> IF existingRepo = {} THEN acc.inserted + 1 ELSE acc.inserted,
           existing |-> IF existingRepo # {} THEN acc.existing + 1 ELSE acc.existing,
           errors |-> IF fault = "event" THEN Append(acc.errors, "Discovery event failed")
                      ELSE acc.errors]

RECURSIVE StoreFrom(_, _, _, _, _)
StoreFrom(acc, list, faults, sourceId, k) ==
  IF k > Len(list) THEN acc
  ELSE StoreFrom(StoreOne(acc, list[k], faults[k], sourceId), list, faults, sourceId, k + 1)

(* storeDiscoveredRepos once createClient is there *)
storeDiscoveredRepos(rows, events, list, faults, sourceId) ==
  StoreFrom([repos |-> rows, events |-> events, inserted |-> 0, existing |-> 0,
             errors |-> <<>>], list, faults, sourceId, 1)

(* The values of ?sources considered: absent, one module, two in another   *)
(* order, a name of no module, the empty string, all three                 *)
SourcesParams ==
  {[given |-> FALSE]} \cup
  {[given |-> TRUE, value |-> v] :
     v \in {<<"github_trending">>, <<"github_search", "github_explore">>,
            <<"github_explore", "bogus">>, <<"">>}}

(* What a module's discover() resolves with; its own catches turn a failed *)
(* fetch into fewer or no repositories                                     *)
DiscoveredLists == {<<>>, <<N1>>, <<N1, N2>>, <<N2, N2>>}

(* The handler is invoked: configuration, ?sources, the list of modules *)
OrchestratorServe(r) ==
  /\ run[r].pc = "orchestrate"
  /\ \E configured \in BOOLEAN, sources \in SourcesParams :
       run' = [run EXCEPT ![r] =
         IF ~configured THEN [@ EXCEPT !.pc = "done", !.response = ErrorResponse]
         ELSE LET modules == Modules(enabledSources(sources))
              IN IF modules = <<>>
                 THEN [@ EXCEPT !.pc = "done", !.configured = TRUE, !.sources = sources,
                                !.response = DiscoveryResponse(<<>>)]
                 ELSE [@ EXCEPT !.pc = "discovering", !.configured = TRUE,
                                !.sources = sources, !.modules = modules, !.mi = 1]]
  /\ UNCHANGED storeVars

(* await module.discover() *)
Discover(r) ==
  /\ run[r].pc = "discovering"
  /\ \E list \in DiscoveredLists :
       run' = [run EXCEPT ![r] = [@ EXCEPT !.pc = "storing", !.discoveredRepos = list]]
  /\ UNCHANGED storeVars

(* await storeDiscoveredRepos(...) and the rest of the iteration: either   *)
(* the import of the client throws, or the repositories are stored one by  *)
(* one, the result is pushed and the handler waits 2000 ms                 *)
StoreDiscovered(r) ==
  /\ run[r].pc = "storing"
  /\ \/ /\ run' = [run EXCEPT ![r] = Caught(@, "error.message")]
        /\ UNCHANGED storeVars
     \/ \E faults \in [1..Len(run[r].discoveredRepos) -> StoreFaults] :
          LET s == run[r]
              storeResult == storeDiscoveredRepos(repos, discovery_events, s.discoveredRepos,
                                                  faults, SourceId(s.modules[s.mi]))
          IN /\ repos' = storeResult.repos
             /\ discovery_events' = storeResult.events
             /\ run' = [run EXCEPT ![r] =
                  NextModule(@, [source_name |-> s.modules[s.mi],
                                 discovered |-> Len(s.discoveredRepos),
                                 inserted |-> storeResult.inserted,
                                 existing |-> storeResult.existing,
                                 errors |-> storeResult.errors])]
             /\ UNCHANGED <<now, snapshots, trending_discoveries>>

InitOrchestrator ==
  /\ now = 1000
  /\ repos \in {{}, {LifecycleRepo(1, N1, TRUE)}}
  /\ snapshots = <<>>
  /\ trending_discoveries = {}
  /\ discovery_events = <<>>
  /\ run = [r \in RunIds |-> IF r = 1 THEN [IdleRun EXCEPT !.pc = "orchestrate"] ELSE IdleRun]

NextOrchestrator ==
  \E r \in RunIds : OrchestratorServe(r) \/ Discover(r) \/ StoreDiscovered(r)

SpecOrchestrator == InitOrchestrator /\ [][NextOrchestrator]_vars

----------------------------------------------------------------------------
(* Properties of fetchReposBatched and fetchWithRetry (SpecFetch) *)

(* The last position of the input that holds the same name as position k *)
LastOcc(names, k) ==
  LET at == {j \in 1..Len(names) : names[j] = names[k]}
  IN CHOOSE j \in at : \A m \in at : m <= j

(* C4: fetchReposBatched returns a list as long as its input, and the     *)
(* element at position k is the result obtained for the name at position  *)
(* k (the value its latest lookup in the input produced).                 *)
C4_SameLengthSameOrder ==
  \A r \in RunIds :
    run[r].pc = "fetched" =>
      /\ Len(run[r].statsResults) = Len(run[r].fullNames)
      /\ \A k \in 1..Len(run[r].fullNames) :
           run[r].statsResults[k] = run[r].posOutcome[LastOcc(run[r].fullNames, k)]

(* Reached: a two-chunk input returned with resolved and failed positions *)
C4_Witness ==
  \E r \in RunIds :
      /\ run[r].pc = "fetched"
      /\ Len(run[r].fullNames) > batchSize
      /\ \E k, j \in 1..Len(run[r].statsResults) :
           run[r].statsResults[k] # Null /\ run[r].statsResults[j] = Null

IsTransient(resp) ==
  resp.kind = "neterr" \/ (resp.kind = "http" /\ resp.status \in {502, 503, 504})

(* C9: one chunk call is retried only on 502/503/504 or a network error,  *)
(* at most 3 times, after waits of 1s, 2s and 4s; it makes at most 4      *)
(* requests, gives up after the fourth transient outcome, and returns any *)
(* other response without retrying.                                       *)
C9_RetryPolicy ==
  \A r \in RunIds :
    LET s == run[r]
    IN /\ Len(s.waits) <= 3
       /\ \A k \in 1..Len(s.waits) : s.waits[k] = <<1000, 2000, 4000>>[k]
       /\ s.chunkRequests <= 4
       /\ s.pc = "inflight" => s.chunkRequests = Len(s.waits) + 1
       /\ s.pc = "backoff" => s.chunkRequests = Len(s.waits) /\ IsTransient(s.lastResp)
       /\ (s.pc \in {"delay", "fetched"} /\ s.lastResp # NoResp) =>
            /\ s.chunkRequests = Len(s.waits) + 1
            /\ IsTransient(s.lastResp) => s.chunkRequests = 4

(* Reached: a chunk that gave up after waits of 1s, 2s, 4s and 4 requests *)
C9_Witness ==
  \E r \in RunIds :
      /\ run[r].pc = "fetched"
      /\ IsTransient(run[r].lastResp)
      /\ run[r].waits = <<1000, 2000, 4000>>
      /\ run[r].chunkRequests = 4

(* C10: when the final response of a chunk is non-2xx, not JSON or does   *)
(* not parse, every input position of that chunk gets null in the result. *)
C10_RejectedChunkAllNull ==
  \A r \in RunIds :
    run[r].pc = "fetched" =>
      \A i \in run[r].rejectedChunks :
        \A k \in (i + 1)..Min(i + batchSize, Len(run[r].fullNames)) :
          run[r].statsResults[k] = Null

(* C11: the request of every chunk after the first is preceded by one     *)
(* wait of the inter-chunk delay, whatever the outcome of the chunk       *)
(* before it, and no wait follows the last chunk: the number of waits is  *)
(* always the number of chunks started minus one.                         *)
C11_DelayBetweenChunks ==
  \A r \in RunIds :
    LET s == run[r]
    IN /\ s.pc \in {"inflight", "backoff"} => s.delays = s.i \div batchSize
       /\ (s.pc = "fetched" /\ Len(s.fullNames) > 0) =>
            s.delays = CeilDiv(Len(s.fullNames), batchSize) - 1

(* The offsets of the chunks of a call that failed: final response        *)
(* rejected, or fetchWithRetry threw                                      *)
FailedChunks(s) == s.rejectedChunks \cup s.thrownChunks

(* The offset of the chunk of input position k *)
ChunkOf(k) == ((k - 1) \div batchSize) * batchSize

Once(names, k) == \A j \in 1..Len(names) : names[j] = names[k] => j = k

InFlight(s) == s.requests - s.settled

(* C22: a call never has two lookup requests in flight, and while the     *)
(* request of a chunk is in flight or waits for its retry, every position *)
(* of the chunks before it has its result and no position of this or a    *)
(* later chunk has one.                                                   *)
C22_ChunksSequential ==
  \A r \in RunIds :
    LET s == run[r]
    IN /\ InFlight(s) \in {0, 1}
       /\ InFlight(s) = 1 <=> s.pc = "inflight"
       /\ s.pc \in {"inflight", "backoff"} =>
            \A k \in 1..Len(s.fullNames) :
              /\ k <= s.i => s.posOutcome[k] # Undefined
              /\ k > s.i => s.posOutcome[k] = Undefined

(* Reached: a retry of the second chunk is in flight, after the first     *)
(* chunk was answered on a retry                                          *)
C22_Witness ==
  \E r \in RunIds :
    /\ run[r].pc = "inflight"
    /\ run[r].i = batchSize
    /\ run[r].attempt >= 1
    /\ run[r].requests >= 4
    /\ InFlight(run[r]) = 1
    /\ \A k \in 1..batchSize : run[r].posOutcome[k] # Undefined

----------------------------------------------------------------------------
(* Properties of updateRepoFetchStatus (SpecStatus) *)

(* C12: a not-found result marks the entity with the permanent status     *)
(* not_found, schedules no retry, records the failure reason, and writes  *)
(* no snapshot.                                                           *)
C12_NotFoundIsPermanent ==
  \A r \in RunIds :
    LET l == run[r].lastStatus
    IN (l # Null /\ l.status = "not_found") =>
         /\ l.updates.fetch_status = "not_found"
         /\ "next_retry_after" \notin DOMAIN l.updates
         /\ l.updates.last_fetch_error # NullText
         /\ \A k \in 1..Len(snapshots) : snapshots[k].recorded_at < l.at

(* C13: the k-th consecutive failure of an entity schedules the next      *)
(* retry 1 hour later for k = 1, 6 hours for k = 2, 24 hours for k = 3    *)
(* and 7 days for k = 4.                                                  *)
C13_BackoffSchedule ==
  \A r \in RunIds :
    LET l == run[r].lastStatus
    IN (l # Null /\ l.status # "fetchable" /\ l.failureCount \in 1..4) =>
         /\ "next_retry_after" \in DOMAIN l.updates
         /\ l.updates.next_retry_after - l.updates.last_fetch_attempt
              = <<1, 6, 24, 7 * 24>>[l.failureCount]

(* C14: an entity that has failed 5 times in a row, or whose status is    *)
(* not_found, is in no population the view returns.                       *)
C14_ExcludedFromSelection ==
  \A x \in repos :
    (x.fetch_failure_count >= 5 \/ x.fetch_status = "not_found") =>
      \A pop \in repos_needing_snapshots(repos, snapshots, now) :
        \A k \in 1..Len(pop) : pop[k].full_name # x.full_name

----------------------------------------------------------------------------
(* Properties of one collector run (Spec) *)

Resolved(s) == {k \in 1..Len(s.statsResults) : s.statsResults[k] # Null}

Summarised(s) == s.pc = "done" /\ s.response # Null /\ s.response.status = 200

(* C1: a stub whose lookup returned resolved data, whatever owner/name    *)
(* the data carries, ends the run with the fetched id in the row of its   *)
(* display name, and the run has not added entity rows.                   *)
C1_StubPromoted ==
  \A r \in RunIds :
    Summarised(run[r]) =>
      \A k \in Resolved(run[r]) \ run[r].upsertFailed :
        run[r].reposToProcess[k].github_id = NullId =>
          /\ \E x \in repos : /\ x.full_name = run[r].reposToProcess[k].full_name
                              /\ x.github_id = run[r].statsResults[k].databaseId
          /\ Cardinality(repos) <= Cardinality(run[r].reposAtStart)

(* C2: the snapshot rows handed to the store are one per resolved         *)
(* candidate, each with that result's stars, forks, watchers, open issues *)
(* and size, and none for a candidate whose result is null.               *)
C2_OneSnapshotPerResolved ==
  \A r \in RunIds :
    Summarised(run[r]) =>
      LET s == run[r]
      IN /\ Len(s.submitted) = Cardinality(Resolved(s))
         /\ Len(s.snapIdx) = Len(s.submitted)
         /\ Range(s.snapIdx) = Resolved(s)
         /\ \A j \in 1..Len(s.submitted) :
              LET data == s.statsResults[s.snapIdx[j]]
              IN /\ s.submitted[j].stars = data.stargazerCount
                 /\ s.submitted[j].forks = data.forkCount
                 /\ s.submitted[j].watchers = data.watchers
                 /\ s.submitted[j].open_issues = data.issues
                 /\ s.submitted[j].size = data.diskUsage

(* Reached: a run of two candidates, one resolved and one not, that       *)
(* handed exactly one snapshot row to the store                           *)
C2_Witness ==
  \E r \in RunIds :
    /\ Summarised(run[r])
    /\ Len(run[r].statsResults) = 2
    /\ Cardinality(Resolved(run[r])) = 1
    /\ Len(run[r].submitted) = 1

(* C3: when the store refuses the write of one candidate, the snapshot of *)
(* every other resolved candidate of the run is still inserted.           *)
C3_WriteIndependence ==
  \A r \in RunIds :
    Summarised(run[r]) =>
      \A k \in Resolved(run[r]) :
        (k \notin run[r].upsertFailed /\ k \notin run[r].rowRefused) =>
          k \in run[r].insertedIdx

(* The view has been read by the run *)
HasRead(s) == s.popReads = 1 /\ s.response # ErrorResponse

(* C5: the fetcher is handed the first effectiveLimit rows of the         *)
(* population, in population order, with effectiveLimit = min(population  *)
(* size, requestedLimit, availableBudget * 100) and availableBudget =     *)
(* max(0, remaining - 100).                                               *)
C5_SelectsFirstEffectiveLimit ==
  \A r \in RunIds :
    HasRead(run[r]) =>
      LET s == run[r]
          budget == IF s.rateLimit.remaining - 100 > 0 THEN s.rateLimit.remaining - 100 ELSE 0
          bound == CHOOSE n \in {Len(s.population), s.maxRepos, budget * 100} :
                     \A m \in {Len(s.population), s.maxRepos, budget * 100} : n <= m
      IN /\ Len(s.reposToProcess) = bound
         /\ \A k \in 1..bound : s.reposToProcess[k] = s.population[k]
         /\ s.fullNames = [k \in 1..bound |-> s.population[k].full_name]

(* Reached: a population of two of which the requested limit kept one *)
C5_Witness ==
  \E r \in RunIds :
    /\ HasRead(run[r])
    /\ Len(run[r].population) = 2
    /\ Len(run[r].fullNames) = 1
    /\ run[r].requests >= 1

(* The re-measurement interval of a star count, in hours *)
TierInterval(stars) ==
  IF stars >= 10000 THEN 20
  ELSE IF stars >= 1000 THEN 22
  ELSE IF stars >= 100 THEN 44
  ELSE IF stars >= 10 THEN 68
  ELSE 168

(* The rows with an identifier whose latest snapshot, at the time the run *)
(* read the view, was younger than the interval of their star tier        *)
MeasuredRecently(s) ==
  {x \in s.reposAtRead :
     /\ x.github_id # NullId
     /\ \E k \in 1..Len(s.snapshotsAtRead) :
          /\ s.snapshotsAtRead[k].github_id = x.github_id
          /\ s.readAt - s.snapshotsAtRead[k].recorded_at < TierInterval(x.stars)}

Untouched(s, x) ==
  /\ \A k \in 1..Len(s.population) : s.population[k].full_name # x.full_name
  /\ \A k \in 1..Len(s.fullNames) : s.fullNames[k] # x.full_name
  /\ \A k \in 1..Len(s.submitted) : s.submitted[k].github_id # x.github_id

C7_LowBudgetEndsRun ==
  \A r \in RunIds :
    run[r].rateLimit # Null =>
      LET s == run[r]
      IN IF s.rateLimit.remaining < 50
         THEN /\ s.pc = "done"
              /\ s.response.status = 429
              /\ s.popReads = 0 /\ s.requests = 0 /\ s.entityWrites = 0
              /\ s.submitted = <<>>
              /\ repos = s.reposAtStart /\ snapshots = s.snapshotsAtStart
         ELSE s.response = Null \/ s.response.status # 429

(* Reached: a run ended by a probe that reported 49 *)
C7_Witness ==
  \E r \in RunIds :
    /\ run[r].pc = "done"
    /\ run[r].rateLimit.remaining = 49
    /\ run[r].response.status = 429

(* C8: a failed probe does not block a run that has candidates and a      *)
(* requested limit of at least 1: at least one lookup is issued.          *)
C8_FailedProbeStillFetches ==
  \A r \in RunIds :
    (/\ Summarised(run[r])
     /\ run[r].probeFailed
     /\ Len(run[r].population) >= 1
     /\ run[r].maxRepos >= 1) => run[r].requests >= 1

(* C15: every candidate of a chunk that still failed after its retries -- *)
(* the last outcome a 502/503/504 response or a network error -- has, at  *)
(* the end of the collector run, the status retry_later, a failure count  *)
(* one higher than before and a next retry time, and no snapshot.         *)
C15_ExhaustedChunkMarkedRetryLater ==
  \A r \in RunIds :
    (Summarised(run[r]) /\ IsTransient(run[r].lastResp)) =>
      \A k \in 1..Len(run[r].reposToProcess) :
        /\ k \notin Range(run[r].snapIdx)
        /\ \A x \in repos :
             x.full_name = run[r].reposToProcess[k].full_name =>
               /\ x.fetch_status = "retry_later"
               /\ x.next_retry_after # NullTime
               /\ \E y \in run[r].reposAtRead :
                    /\ y.full_name = x.full_name
                    /\ x.fetch_failure_count = y.fetch_failure_count + 1

(* C17: once a row of repos has a non-null identifier, no step of a run   *)
(* changes it: the row of that display name keeps the identifier.         *)
C17_IdentifierNeverChanges ==
  [][\A x \in repos :
       x.github_id # NullId =>
         \E y \in repos' : y.full_name = x.full_name /\ y.github_id = x.github_id]_vars

(* C25: a run that stops because the rate limit is below the floor        *)
(* answers with a successful, non-error result that carries the           *)
(* low-budget reason.                                                     *)
C25_LowBudgetReportedAsSuccess ==
  \A r \in RunIds :
    LET s == run[r]
    IN (s.pc = "done" /\ s.rateLimit # Null /\ LowRateLimit(s.rateLimit)) =>
         /\ s.response.success
         /\ s.response.status \in 200..299
         /\ "rate_limit" \in DOMAIN s.response

(* C26: a run that passed the floor and got no rows from the view ends    *)
(* with a successful answer that reports zero repos checked, zero         *)
(* snapshots and zero API calls, having sent no lookup request and        *)
(* written nothing.                                                       *)
C26_EmptyPopulationIsNormalEnd ==
  \A r \in RunIds :
    LET s == run[r]
    IN (HasRead(s) /\ Len(s.reposToSnapshot) = 0) =>
         /\ s.pc = "done"
         /\ s.response.success /\ s.response.status = 200
         /\ s.response.stats = [repos_checked |-> 0, snapshots_taken |-> 0, api_calls_made |-> 0]
         /\ s.requests = 0
         /\ s.entityWrites = 0 /\ s.submitted = <<>>
         /\ repos = s.reposAtStart /\ snapshots = s.snapshotsAtStart

(* Reached: a run with a limit of at least one over a store in which      *)
(* nothing is due has ended                                               *)
C26_Witness ==
  \E r \in RunIds :
    /\ HasRead(run[r])
    /\ run[r].maxRepos >= 1
    /\ ~LowRateLimit(run[r].rateLimit)
    /\ repos # {}
    /\ Len(run[r].population) = 0
    /\ run[r].pc = "done"
    /\ run[r].response.success

(* The row of the display name has the counters of the fetched data *)
Mirrors(rows, fullName, data) ==
  \E x \in rows :
    /\ x.full_name = fullName
    /\ x.stars = data.stargazerCount /\ x.forks = data.forkCount
    /\ x.watchers = data.watchers /\ x.open_issues = data.issues /\ x.size = data.diskUsage

(* C28: when a run has ended, the row of every resolved candidate that    *)
(* had an identifier and whose snapshot was stored has the stars, forks,  *)
(* watchers, open issues and size of that snapshot.                       *)
C28_CountersMirrorLatestSnapshot ==
  \A r \in RunIds :
    LET s == run[r]
    IN Summarised(s) =>
         \A k \in s.insertedIdx :
           s.reposToProcess[k].github_id # NullId =>
             Mirrors(repos, s.reposToProcess[k].full_name, s.statsResults[k])

(* C28 for the candidates whose upsert the store applied *)
C28_CountersMirrorWhenUpsertApplied ==
  \A r \in RunIds :
    LET s == run[r]
    IN Summarised(s) =>
         \A k \in s.insertedIdx \ s.upsertFailed :
           s.reposToProcess[k].github_id # NullId =>
             Mirrors(repos, s.reposToProcess[k].full_name, s.statsResults[k])

(* C23, in the handler: a run whose chunk failed ends with the summary    *)
(* response, after storeSnapshots was called, and counts every candidate  *)
(* as checked.                                                            *)
C23_FailedFetchStillSummarised ==
  \A r \in RunIds :
    LET s == run[r]
    IN (s.pc = "done" /\ FailedChunks(s) # {}) =>
         /\ s.response.status = 200 /\ s.response.success
         /\ s.storeResult # Null
         /\ s.response.stats.repos_checked = Len(s.reposToProcess)

----------------------------------------------------------------------------
(* Properties of checkRateLimit (SpecProbe) *)

(* The body of a 2xx answer carries the three limits *)
WellFormedAnswer(probe) ==
  /\ probe.kind = "http" /\ probe.status \in 200..299
  /\ probe.body.shape = "core"
  /\ DOMAIN probe.body.core = {"remaining", "limit", "reset"}

(* C24: checkRateLimit makes one request and returns; for a well-formed   *)
(* 2xx answer it returns the remaining, limit and reset of the answer,    *)
(* and for every other answer remaining 100, total 5000, reset in 1 hour. *)
C24_ProbeFailsSoft ==
  \A r \in RunIds :
    LET s == run[r]
    IN s.pc = "probed" =>
         /\ s.probeRequests = 1
         /\ IF WellFormedAnswer(s.probe)
            THEN s.rateLimit = [remaining |-> s.probe.body.core.remaining,
                                total |-> s.probe.body.core.limit,
                                reset_time |-> s.probe.body.core.reset]
            ELSE s.rateLimit = [remaining |-> 100, total |-> 5000, reset_time |-> now + 1]

(* C24 for the answers that make the try block of checkRateLimit throw,   *)
(* and for the well-formed ones                                           *)
C24_ProbeFailsSoftWhenThrown ==
  \A r \in RunIds :
    LET s == run[r]
    IN (s.pc = "probed" /\ (ProbeThrows(s.probe) \/ WellFormedAnswer(s.probe))) =>
         /\ s.probeRequests = 1
         /\ IF WellFormedAnswer(s.probe)
            THEN s.rateLimit = [remaining |-> s.probe.body.core.remaining,
                                total |-> s.probe.body.core.limit,
                                reset_time |-> s.probe.body.core.reset]
            ELSE s.rateLimit = [remaining |-> 100, total |-> 5000, reset_time |-> now + 1]

----------------------------------------------------------------------------
(* Properties of two collector runs over the same store (SpecTwo) *)

(* The run has reconciled a resolved result for its candidate, and the     *)
(* store has accepted both the upsert and the snapshot                     *)
Applied(s) ==
  /\ Summarised(s)
  /\ Len(s.statsResults) = 1
  /\ s.statsResults[1] # Null
  /\ 1 \notin s.upsertFailed
  /\ 1 \in s.insertedIdx

(* The snapshot rows added since the runs started *)
Added == SubSeq(snapshots, Len(run[1].snapshotsAtStart) + 1, Len(snapshots))

C27_SnapshotsAppendOnly ==
  [][/\ Len(snapshots') >= Len(snapshots)
     /\ \A k \in 1..Len(snapshots) : snapshots'[k] = snapshots[k]]_vars

(* Reached: both runs have added a snapshot row of the entity after the   *)
(* row it had before, one of them after a refused write                   *)
C27_Witness ==
  /\ \A r \in RunIds : Summarised(run[r]) /\ run[r].insertedIdx # {}
  /\ \E r \in RunIds : run[r].storeFaults > 0
  /\ Len(snapshots) = 3
  /\ <<snapshots[1]>> = run[1].snapshotsAtStart
  /\ snapshots[2].github_id = snapshots[1].github_id
  /\ snapshots[3].github_id = snapshots[1].github_id

(* C18: when two overlapping runs select the same entity and the store    *)
(* refuses nothing of its own accord, there is exactly one row of that    *)
(* display name, it carries a fetched identifier, every snapshot row      *)
(* added carries the counters of one of the fetches, and as many rows are *)
(* added as fetches resolved.                                             *)
C18_OverlapDuplicatesOnly ==
  (/\ \A r \in RunIds :
        /\ Summarised(run[r])
        /\ Len(run[r].reposToProcess) = 1
        /\ run[r].storeFaults = 0
   /\ run[1].reposToProcess[1].full_name = run[2].reposToProcess[1].full_name) =>
    LET name == run[1].reposToProcess[1].full_name
        fetched == {run[r].statsResults[1] : r \in RunIds} \ {Null}
    IN /\ Cardinality({x \in repos : x.full_name = name}) = 1
       /\ fetched # {} =>
            \A x \in repos : x.full_name = name =>
              \E d \in fetched : x.github_id = d.databaseId
       /\ \A k \in 1..Len(Added) :
            \E d \in fetched :
              /\ Added[k].github_id = d.databaseId
              /\ Added[k].stars = d.stargazerCount /\ Added[k].forks = d.forkCount
              /\ Added[k].watchers = d.watchers /\ Added[k].open_issues = d.issues
              /\ Added[k].size = d.diskUsage
       /\ Len(Added) = Cardinality({r \in RunIds : run[r].statsResults[1] # Null})

----------------------------------------------------------------------------
(* Properties of the population (SpecView) *)

(* The row of the store a population entry stands for *)
RowOf(s, k) == CHOOSE x \in s.reposAtRead : x.full_name = s.population[k].full_name

InPopulation(s, x) == \E k \in 1..Len(s.population) : s.population[k].full_name = x.full_name

(* C19: every row with a null identifier is in the population, whatever   *)
(* its age and its earlier attempts, and precedes every row with an       *)
(* identifier.                                                            *)
C19_StubsAlwaysFirst ==
  \A r \in RunIds :
    HasRead(run[r]) =>
      LET s == run[r]
      IN /\ \A x \in s.reposAtRead : x.github_id = NullId => InPopulation(s, x)
         /\ \A k, j \in 1..Len(s.population) :
              (RowOf(s, k).github_id = NullId /\ RowOf(s, j).github_id # NullId) => k < j

(* Reached: a population in which an old stub that was tried before comes *)
(* ahead of a newly discovered repository and of a due one                *)
C19_Witness ==
  \E r \in RunIds :
    /\ HasRead(run[r])
    /\ Len(run[r].population) = 3
    /\ RowOf(run[r], 1).github_id = NullId
    /\ RowOf(run[r], 1).fetch_failure_count = 3
    /\ RowOf(run[r], 2).github_id # NullId
    /\ RowOf(run[r], 2).discovered_at >= run[r].readAt - 48
    /\ RowOf(run[r], 3).github_id # NullId

(* The tier of a row with an identifier, as the claim lists them: 1 new,   *)
(* 2 no snapshot, 3..7 the star tiers whose interval has elapsed, 0 when   *)
(* no tier condition holds                                                 *)
ClaimedTier(s, x) ==
  LET mine == {k \in 1..Len(s.snapshotsAtRead) : s.snapshotsAtRead[k].github_id = x.github_id}
      elapsed == \A k \in mine :
                   s.readAt - s.snapshotsAtRead[k].recorded_at >= TierInterval(x.stars)
  IN IF x.discovered_at >= s.readAt - 48 THEN 1
     ELSE IF mine = {} THEN 2
     ELSE IF ~elapsed THEN 0
     ELSE IF x.stars >= 10000 THEN 3
     ELSE IF x.stars >= 1000 THEN 4
     ELSE IF x.stars >= 100 THEN 5
     ELSE IF x.stars >= 10 THEN 6
     ELSE 7

(* C20: every row with an identifier whose tier condition holds is in the *)
(* population, and a row of a higher tier precedes a row of a lower tier. *)
C20_CompleteAndTierOrdered ==
  \A r \in RunIds :
    HasRead(run[r]) =>
      LET s == run[r]
      IN /\ \A x \in s.reposAtRead :
              (x.github_id # NullId /\ ClaimedTier(s, x) # 0) => InPopulation(s, x)
         /\ \A k, j \in 1..Len(s.population) :
              (/\ RowOf(s, k).github_id # NullId /\ RowOf(s, j).github_id # NullId
               /\ ClaimedTier(s, RowOf(s, k)) < ClaimedTier(s, RowOf(s, j))) => k < j

(* Reached: a population of three rows of three different tiers, the      *)
(* lowest tier being the staler row                                       *)
C20_Witness ==
  \E r \in RunIds :
    /\ HasRead(run[r])
    /\ Len(run[r].population) = 3
    /\ \A k \in 1..3 : RowOf(run[r], k).github_id # NullId
    /\ ClaimedTier(run[r], RowOf(run[r], 1)) = 1
    /\ ClaimedTier(run[r], RowOf(run[r], 2)) = 4
    /\ ClaimedTier(run[r], RowOf(run[r], 3)) = 7
    /\ run[r].population[3].hours_since_last_snapshot
         > run[r].population[1].hours_since_last_snapshot

(* C21: of two rows of the population with the same priority and          *)
(* different hours since the last snapshot, the one with more hours comes *)
(* first, and is among the candidates whenever the other one is.          *)
C21_StalerFirstWithinTier ==
  \A r \in RunIds :
    HasRead(run[r]) =>
      LET s == run[r]
          kept == {s.reposToProcess[k].full_name : k \in 1..Len(s.reposToProcess)}
      IN \A k, j \in 1..Len(s.population) :
           (/\ s.population[k].priority_score = s.population[j].priority_score
            /\ s.population[k].hours_since_last_snapshot
                 > s.population[j].hours_since_last_snapshot)
           => /\ k < j
              /\ s.population[j].full_name \in kept => s.population[k].full_name \in kept

(* Reached: two rows of the 1000-star tier, measured 30 and 22 hours ago, *)
(* with the limit cutting between them                                    *)
C21_Witness ==
  \E r \in RunIds :
    /\ HasRead(run[r])
    /\ Len(run[r].population) >= 2
    /\ run[r].population[1].priority_score = 700
    /\ run[r].population[2].priority_score = 700
    /\ run[r].population[1].hours_since_last_snapshot = 30
    /\ run[r].population[2].hours_since_last_snapshot = 22
    /\ Len(run[r].reposToProcess) = 1
    /\ run[r].reposToProcess[1].full_name = run[r].population[1].full_name

----------------------------------------------------------------------------
(* Properties of the repo-lifecycle handler (SpecLifecycle) *)

RecentlyTrending(id) ==
  \E d \in trending_discoveries : d.repo_id = id /\ d.discovered_at >= now - 3 * Day

Completed(r) == run[r].pc = "done" /\ run[r].response = LifecycleSummary(run[r])

(* C29: after a lifecycle run has completed (answered with its summary),   *)
(* every repository that appeared in trending within the last 3 days is    *)
(* active, also one the same run deactivated; and a repository the run     *)
(* deactivated was active, with at least max_stale_days days since last    *)
(* growth and a daily star growth below min_daily_growth                   *)
C29_TrendingActiveAndOnlyStaleDeactivated ==
  \A r \in RunIds :
    /\ Completed(r) =>
         \A x \in repos : RecentlyTrending(x.id) => x.is_active
    /\ \A id \in run[r].deactivated :
         /\ \E x \in run[r].reposAtStart : x.id = id /\ x.is_active
         /\ \E m \in run[r].metrics :
              /\ m.repo_id = id
              /\ m.is_active
              /\ m.days_since_last_growth >= run[r].config.max_stale_days
              /\ m.daily_star_growth < run[r].config.min_daily_growth

(* A completed run that deactivated a repository which appeared in         *)
(* trending exactly 3 days before, and reactivated it                      *)
C29_Witness ==
  /\ Completed(1)
  /\ \E x \in repos :
       /\ x.id \in run[1].deactivated
       /\ TrendingDiscovery(x.id, now - 3 * Day) \in trending_discoveries
       /\ x.is_active
       /\ run[1].response.summary.deactivated >= 1
       /\ run[1].response.summary.reactivated >= 1

----------------------------------------------------------------------------
(* Properties of the discovery orchestrator (SpecOrchestrator) *)

(* The modules a request enables: all three without ?sources, otherwise    *)
(* those it lists                                                          *)
Enabled(sources) ==
  {n \in {"github_trending", "github_explore", "github_search"} :
     ~sources.given \/ \E k \in 1..Len(sources.value) : sources.value[k] = n}

RECURSIVE SumOf(_, _)
SumOf(results, field) ==
  IF results = <<>> THEN 0 ELSE results[1][field] + SumOf(Tail(results), field)

(* C30: a configured orchestrator answers with success whatever its        *)
(* modules did, with exactly one result per enabled module also when an    *)
(* earlier module failed; the totals discovered, inserted and existing are *)
(* the sums over the results; and a module whose iteration failed          *)
(* contributes zero counts and one error                                   *)
C30_EveryModuleRunsAndTotalsAreSums ==
  \A r \in RunIds :
    (run[r].pc = "done" /\ run[r].configured) =>
      LET response == run[r].response
          results == response.results
      IN /\ response.status = 200 /\ response.success
         /\ Len(results) = Cardinality(Enabled(run[r].sources))
         /\ {results[k].source_name : k \in 1..Len(results)} = Enabled(run[r].sources)
         /\ response.totals.discovered = SumOf(results, "discovered")
         /\ response.totals.inserted = SumOf(results, "inserted")
         /\ response.totals.existing = SumOf(results, "existing")
         /\ \A k \in run[r].caught :
              /\ results[k].discovered = 0
              /\ results[k].inserted = 0
              /\ results[k].existing = 0
              /\ Len(results[k].errors) = 1

(* All three modules enabled, the first failed, and the later ones still   *)
(* inserted and found repositories                                         *)
C30_Witness ==
  /\ run[1].pc = "done" /\ run[1].configured
  /\ run[1].caught = {1}
  /\ Len(run[1].response.results) = 3
  /\ run[1].response.results[2].inserted = 2
  /\ run[1].response.results[3].existing = 2
  /\ run[1].response.totals.discovered = 4

----------------------------------------------------------------------------
(* Termination of fetchReposBatched (SpecFetch) *)

(* What is left of a call: the chunks from offset i on, and within the     *)
(* chunk the attempts left; 0 once the call has returned                   *)
Remaining(s) ==
  LET chunksLeft == CeilDiv(Len(s.fullNames) - s.i, batchSize)
      perChunk == 2 * (maxRetries + 1) + 2
  IN CASE s.pc = "call" -> (CeilDiv(Len(s.fullNames), batchSize) + 1) * perChunk
       [] s.pc = "inflight" -> chunksLeft * perChunk + 2 * (maxRetries - s.attempt) + 2
       [] s.pc = "backoff" -> chunksLeft * perChunk + 2 * (maxRetries - s.attempt) + 1
       [] s.pc = "delay" -> chunksLeft * perChunk
       [] OTHER -> 0

(* A call that has not returned is at the entry, waits for a timer, or     *)
(* waits for a fetch that has some way to settle                           *)
Pending(s) ==
  \/ s.pc \in {"call", "backoff", "delay"}
  \/ s.pc = "inflight" /\ Responses(s.query) # {}

(* C37: fetchReposBatched always terminates: whatever answers and network  *)
(* errors arrive, no chunk gets more than 4 requests; a call that has not  *)
(* returned always has a pending fetch or timer, and every step brings it  *)
(* closer to its return; when it has returned it has processed exactly     *)
(* ceil(n / 100) chunks and hands back one result per name                 *)
C37_AlwaysTerminates ==
  /\ [](\A r \in RunIds :
          /\ run[r].chunkRequests <= maxRetries + 1
          /\ run[r].requests <= (maxRetries + 1) * run[r].chunks
          /\ Remaining(run[r]) >= 0
          /\ run[r].pc \in {"call", "inflight", "backoff", "delay"} => Pending(run[r])
          /\ run[r].pc = "fetched" =>
               /\ run[r].chunks = CeilDiv(Len(run[r].fullNames), batchSize)
               /\ Len(run[r].statsResults) = Len(run[r].fullNames))
  /\ [][\A r \in RunIds :
          run'[r] # run[r] => Remaining(run'[r]) < Remaining(run[r])]_vars

(* A call for 101 names has returned after two chunks of four requests each *)
C37_Witness ==
  /\ run[1].pc = "fetched"
  /\ Len(run[1].fullNames) = MaxLen
  /\ run[1].chunks = 2
  /\ run[1].requests = 8
  /\ run[1].thrownChunks = {0, batchSize}

----------------------------------------------------------------------------
(* Positional independence of the results of fetchReposBatched (SpecFetch) *)

(* C33: the result returned at an input position is the aliased field of   *)
(* that position in the response of the position's own chunk (null when    *)
(* the chunk was rejected or gave up, or the name is malformed), whatever  *)
(* happens to other chunks and wherever else the same name occurs          *)
C33_ResultDependsOnOwnPositionOnly ==
  \A r \in RunIds :
    run[r].pc = "fetched" =>
      \A k \in 1..Len(run[r].fullNames) : run[r].statsResults[k] = run[r].posOutcome[k]

----------------------------------------------------------------------------
(* The budget of a run of the collector (Spec) *)

(* C32: a run never spends the safety reserve: the lookup requests it has  *)
(* issued, retries included, never exceed max(0, remaining - 100) of the   *)
(* rate limit it obtained                                                  *)
C32_ReserveNeverSpent ==
  \A r \in RunIds :
    run[r].pc \notin {"off", "start", "probing"} =>
      run[r].requests <= Max(0, run[r].rateLimit.remaining - reserve)

----------------------------------------------------------------------------
(* The counters of the run summary (Spec) *)

(* The response is the summary of a run that went through the fetch *)
IsSummary(response) ==
  /\ "stats" \in DOMAIN response
  /\ "inserted" \in DOMAIN response.stats

(* C36: in the summary of a run, repos_checked is the number of selected   *)
(* candidates, snapshots_taken the number of resolved results (at most     *)
(* repos_checked), inserted + errors = snapshots_taken, api_calls_made =   *)
(* ceil(repos_checked / 100), and the reported remaining budget is the     *)
(* probe's remaining minus api_calls_made                                  *)
C36_SummaryCountersConserved ==
  \A r \in RunIds :
    (run[r].pc = "done" /\ IsSummary(run[r].response)) =>
      LET stats == run[r].response.stats
          resolved == {k \in 1..Len(run[r].statsResults) : run[r].statsResults[k] # Null}
      IN /\ stats.repos_checked = Len(run[r].reposToProcess)
         /\ stats.snapshots_taken = Cardinality(resolved)
         /\ stats.snapshots_taken <= stats.repos_checked
         /\ stats.inserted + stats.errors = stats.snapshots_taken
         /\ stats.api_calls_made = CeilDiv(stats.repos_checked, perCall)
         /\ stats.rate_limit_remaining = run[r].rateLimit.remaining - stats.api_calls_made

(* A summary of two candidates of which one was resolved, after a retried  *)
(* request, whose snapshot the store refused                               *)
C36_Witness ==
  /\ run[1].pc = "done" /\ IsSummary(run[1].response)
  /\ run[1].response.stats.repos_checked = 2
  /\ run[1].response.stats.snapshots_taken = 1
  /\ run[1].response.stats.errors = 1
  /\ run[1].response.stats.api_calls_made = 1
  /\ run[1].requests = 2

----------------------------------------------------------------------------
(* The consecutive-failure counter (SpecStatus: one call after the other)  *)

ConsecutiveOnly(r) ==
  /\ \A x \in repos :
       x.full_name \in DOMAIN run[r].streak =>
         x.fetch_failure_count = run[r].streak[x.full_name]
  /\ (run[r].lastStatus # Null /\ run[r].lastStatus.stored
         /\ run[r].lastStatus.status = "fetchable") =>
       \A x \in repos :
         x.full_name = run[r].lastStatus.fullName =>
           /\ x.fetch_failure_count = 0
           /\ x.next_retry_after = NullTime
           /\ x.fetch_status = "fetchable"

(* C35: in a sequential history of status updates for one entity, a stored *)
(* success sets the counter to 0, clears the next-retry time and sets the  *)
(* status to fetchable, and after each failure the counter is the number   *)
(* of failures stored since the last success                               *)
C35_CounterCountsConsecutiveFailures ==
  \A r \in RunIds : run[r].supabase => ConsecutiveOnly(r)

(* The same for histories in which every select of the current count was   *)
(* answered                                                                *)
C35_CounterCountsConsecutiveWhenCountRead ==
  \A r \in RunIds : (run[r].supabase /\ run[r].selectFaults = 0) => ConsecutiveOnly(r)

----------------------------------------------------------------------------
(* Overlapping failure reports (SpecOverlap) *)

(* The failures stored for N1 by all calls, none followed by a success *)
StoredFailures == run[1].streak[N1] + run[2].streak[N1]

(* C34: no lost update on the consecutive-failure counter: once two        *)
(* failure reports for the same entity have both been stored, however      *)
(* they interleaved, the counter is 2 higher than before and the retry is  *)
(* scheduled with the backoff of that higher count                         *)
C34_NoLostFailureReport ==
  (/\ StoredFailures = 2
   /\ \A r \in RunIds : run[r].statusCalls = {} /\ run[r].selectFaults = 0) =>
    \A x \in repos :
      LET before == CurrentFailureCount(run[1].reposAtStart, x.full_name)
      IN /\ x.fetch_failure_count = before + 2
         /\ x.next_retry_after = now + backoffHours(before + 2)

----------------------------------------------------------------------------
(* Monotonicity of the view in the star count (SpecView) *)

PositionOf(s, x) == CHOOSE k \in 1..Len(s.population) : s.population[k].full_name = x.full_name

(* Two rows with an identifier, discovered more than 48 hours before the   *)
(* read, whose latest snapshots have the same age, x with fewer stars      *)
SameAgeFewerStars(s, x, y) ==
  /\ x.github_id # NullId /\ y.github_id # NullId
  /\ x.discovered_at < s.readAt - 48 /\ y.discovered_at < s.readAt - 48
  /\ latest_snapshot(x, s.snapshotsAtRead) # NullTime
  /\ latest_snapshot(x, s.snapshotsAtRead) = latest_snapshot(y, s.snapshotsAtRead)
  /\ x.stars < y.stars

----------------------------------------------------------------------------
(* Repeated runs *)

(* The entity of the display name is due *)
Due(fullName) ==
  \E x \in repos : /\ x.full_name = fullName
                    /\ needs_snapshot(x, latest_snapshot(x, snapshots), now)

(* C31: with a fixed limit of at least 1, when the handler keeps being     *)
(* invoked (it awaits its probe again and again), every probe answers a    *)
(* budget above the reserve and the API answers every request, an entity   *)
(* that is due is eventually among the candidates of a fetch that returned *)
C31_DueEventuallyFetched ==
  []<>(run[1].pc = "probing")
    => []((run[1].pc # "start" /\ run[1].maxRepos >= 1 /\ Due(N2))
            => <>(N2 \in run[1].everFetched))

====
